---- MODULE Spec2Model ----
(***************************************************************************)
(* Localflare: the REST facade over the platform bindings (the worker API  *)
(* package and the server package), the command-line entry point, the      *)
(* terminal UI and the dashboard's log-stream component.                   *)
(*                                                                         *)
(* A request is handled in one atomic step by the handler the router       *)
(* selects; the handler's binding calls are logged in `calls`.  Optional   *)
(* values are sequences: <<>> is null/undefined, <<x>> is the value x.     *)
(***************************************************************************)
EXTENDS Integers, Sequences, FiniteSets, TLC

VARIABLES
  env,        \* the bindings' data: [kv, r2, d1]
  req,        \* the request being answered: <<>> or <<request>>
  handler,    \* the handler the router selected for it ("" while idle)
  resp,       \* its response: <<>> or <<response>>
  calls,      \* the calls its handler made, in program order
  fault,      \* [fail, fresh]: the call that was made to throw (0: none), the id newUniqueId returned
  scope,      \* which requests arrive: "all" groups, or one group in full width
  last,       \* per key: the last successful single write (<<>>: none, or another write followed)
  twin,       \* a second run of the application: [env, resp, calls, fail, probed]
  cli,        \* the command-line entry point
  tui,        \* the terminal UI
  tail,       \* the dashboard's log-stream component
  cell,       \* an inline editable cell of the dashboard's data table
  form        \* the dashboard's row editor dialog

serveVars == <<env, req, handler, resp, calls, fault, last>>

vars == <<env, req, handler, resp, calls, fault, scope, last, twin, cli, tui, tail, cell, form>>

-----------------------------------------------------------------------------
(* Bounds of the model *)

\* the longest list of keys or row identifiers in a bulk request
MaxBulk == 2
\* calls 1..MaxFault of a handler can be made to throw
MaxFault == 4

-----------------------------------------------------------------------------
(* Optional values, sequences *)

Null == <<>>
Some(x) == <<x>>
IsNull(o) == o = <<>>
Get(o) == o[1]

\* JavaScript's `a || b` on an optional string: the empty string is falsy
OrElse(o, d) == IF IsNull(o) \/ o = Some("") THEN d ELSE Get(o)

Range(s) == {s[i] : i \in DOMAIN s}

SeqsUpTo(S, n) == UNION {[1..k -> S] : k \in 0..n}

RECURSIVE SumSeq(_)
SumSeq(s) == IF s = <<>> THEN 0 ELSE Head(s) + SumSeq(Tail(s))

-----------------------------------------------------------------------------
(* Errors and their String(error) form *)

\* what an injected failure of a binding call throws
BindingError == [name |-> "Error", message |-> "binding call failed"]
JsonSyntaxError == [name |-> "SyntaxError", message |-> "Unexpected token"]
UnboundError == [name |-> "Error", message |-> "binding not found"]
CompositeKeyError == [name |-> "Error", message |-> "Invalid row identifier for composite primary key"]
D1Error == [name |-> "Error", message |-> "D1_ERROR"]
TypeErrorUndefined == [name |-> "TypeError", message |-> "Cannot read properties of undefined"]

\* String(error) of an Error object: "<name>: <message>"
StringOfError(e) ==
  CASE e = BindingError -> "Error: binding call failed"
    [] e = JsonSyntaxError -> "SyntaxError: Unexpected token"
    [] e = UnboundError -> "Error: binding not found"
    [] e = CompositeKeyError -> "Error: Invalid row identifier for composite primary key"
    [] e = D1Error -> "Error: D1_ERROR"
    [] e = TypeErrorUndefined -> "TypeError: Cannot read properties of undefined"

-----------------------------------------------------------------------------
(* Responses and handler outcomes *)

\* c.json(body, status)
Json(status, body) == [status |-> status, type |-> "json", body |-> body]

\* c.text(text, status), the form of the framework's own answers
Text(status, text) == [status |-> status, type |-> "text", body |-> [text |-> text]]

\* new Response(stream, {headers}): status 200
Raw(headers, body) == [status |-> 200, type |-> "raw", headers |-> headers, body |-> body]

\* a call made by a handler: kind is "binding" for a call on a binding
Call(kind, op, arg) == [kind |-> kind, op |-> op, arg |-> arg, ok |-> TRUE]
Failed(c) == [c EXCEPT !.ok = FALSE]

\* the handler returned a response
Done(r, cs, e) == [resp |-> r, calls |-> cs, env |-> e, escaped |-> FALSE]

\* a catch block that answers 503 instead of 500
CaughtUnavailable(err, cs, e) ==
  Done(Json(503, [error |-> StringOfError(err)]), cs, e)

\* catch (error) { return c.json({ error: String(error) }, 500) }
Caught(err, cs, e) ==
  Done(Json(500, [error |-> StringOfError(err)]), cs, e)

\* the D1 routes' catch adds success: false
CaughtD1(err, cs, e) ==
  Done(Json(500, [error |-> StringOfError(err), success |-> FALSE]), cs, e)

\* an exception thrown outside every try block leaves the handler; the
\* framework's default error handler answers 500 with a plain text body
Escaped(err, cs, e) ==
  [resp |-> Text(500, "Internal Server Error"),
   calls |-> cs, env |-> e, escaped |-> TRUE]

-----------------------------------------------------------------------------
(* The bindings of the environment *)

BindingType ==
  [DB |-> "d1", KV |-> "kv", BUCKET |-> "r2", QUEUE |-> "queue", COUNTER |-> "do"]

BindingNames == DOMAIN BindingType

\* env[binding] guarded by the type predicate of the route group
BindingOfType(binding, type) ==
  IF binding \in BindingNames /\ BindingType[binding] = type
  THEN Some(binding) ELSE Null


-----------------------------------------------------------------------------
(* The router: patterns are matched segment by segment, the first route    *)
(* registered for the method that matches the path handles the request.    *)

Lit(s) == [k |-> "lit", v |-> s]
Par(n) == [k |-> "par", v |-> n]
\* :name{.+} : one or more segments, slashes included
Multi(n) == [k |-> "multi", v |-> n]
\* a trailing * : any rest of the path
Star == [k |-> "star", v |-> "*"]

Route(method, pat, h) == [method |-> method, pat |-> pat, h |-> h]

LitsMatch(pat, path) ==
  /\ Len(pat) = Len(path)
  /\ \A i \in DOMAIN pat : pat[i].k = "lit" /\ pat[i].v = path[i]

\* the parameters of the match, or Null when the path does not match
RECURSIVE MatchFrom(_, _, _)
MatchFrom(pat, path, acc) ==
  IF pat = <<>> THEN (IF path = <<>> THEN Some(acc) ELSE Null)
  ELSE LET h == Head(pat) IN
    CASE h.k = "star" -> Some(("rest" :> path) @@ acc)
      [] h.k = "multi" ->
           \* .+ is greedy and must be followed by the literal rest of the pattern
           LET n == Len(path) - (Len(pat) - 1) IN
           IF n >= 1 /\ LitsMatch(Tail(pat), SubSeq(path, n + 1, Len(path)))
           THEN Some((h.v :> SubSeq(path, 1, n)) @@ acc)
           ELSE Null
      [] h.k = "lit" ->
           IF path # <<>> /\ Head(path) = h.v
           THEN MatchFrom(Tail(pat), Tail(path), acc) ELSE Null
      [] h.k = "par" ->
           IF path # <<>>
           THEN MatchFrom(Tail(pat), Tail(path), (h.v :> Head(path)) @@ acc)
           ELSE Null

Match(pat, path) == MatchFrom(pat, path, [x \in {} |-> ""])

\* the index of the first route of the table that handles the request, 0 if none
FirstMatch(table, method, path) ==
  LET hits == {i \in DOMAIN table :
                 /\ table[i].method \in {method, "ALL"}
                 /\ ~IsNull(Match(table[i].pat, path))}
  IN IF hits = {} THEN 0 ELSE CHOOSE i \in hits : \A j \in hits : i <= j

-----------------------------------------------------------------------------
(* KV: the namespace as the handlers see it *)

KvKeys == {"k1", "k2"}
KvValues == {"", "hello", "7"}
KvMetas == {Null, Some("m1")}

EmptyKv == [k \in KvKeys |-> Null]

\* JSON.parse of a stored value
JsonValid(v) == v = "7"
JsonParse(v) == CASE v = "7" -> "number 7"

\* base64 of the bytes of a stored value
Base64(v) ==
  CASE v = "" -> ""
    [] v = "hello" -> "aGVsbG8="
    [] v = "7" -> "Nw=="

\* kv.getWithMetadata(key, {type}) and kv.get(key, {type}):
\* value null for a missing key, the value converted to the type otherwise
KvThrows(store, key, type) ==
  /\ ~IsNull(store[key])
  /\ type = "json"
  /\ ~JsonValid(Get(store[key]).value)

KvRead(store, key, type) ==
  IF IsNull(store[key]) THEN [value |-> Null, metadata |-> Null]
  ELSE LET e == Get(store[key]) IN
    [value |-> CASE type = "json" -> Some(JsonParse(e.value))
                 [] type = "arrayBuffer" -> Some([bytes |-> e.value])
                 [] OTHER -> Some(e.value),
     metadata |-> e.metadata]

\* kv.put(key, value, {metadata})
KvPut(store, key, value, metadata) ==
  [store EXCEPT ![key] = Some([value |-> value, metadata |-> metadata])]

\* kv.delete(key)
KvDelete(store, key) == [store EXCEPT ![key] = Null]

\* kv.list(): the keys present, with their metadata
KvList(store) ==
  {[name |-> k, metadata |-> Get(store[k]).metadata] : k \in {x \in KvKeys : ~IsNull(store[x])}}

-----------------------------------------------------------------------------
(* KV routes of the worker API package *)

getKV(binding) == BindingOfType(binding, "kv")

\* GET / : no try block around getManifest
ApiKvListNamespaces(e, p, r, fail) ==
  LET c1 == Call("manifest", "getManifest", "") IN
  IF fail = 1 THEN Escaped(TypeErrorUndefined, <<Failed(c1)>>, e)
  ELSE Done(Json(200, [namespaces |-> {[binding |-> "KV", id |-> "KV"]}]), <<c1>>, e)

\* a key listing that follows the cursor over three pages
ApiKvListKeysPaged(e, p, r, fail) ==
  IF IsNull(getKV(p.binding))
  THEN Done(Json(404, [error |-> "Namespace not found"]), <<>>, e)
  ELSE LET c1 == Call("binding", "kv.list", "") IN
    IF fail = 1 THEN Caught(BindingError, <<Failed(c1)>>, e)
    ELSE Done(Json(200, [keys |-> KvList(e.kv), list_complete |-> TRUE]), <<c1, c1, c1>>, e)

\* GET /:binding/keys
ApiKvListKeys(e, p, r, fail) ==
  IF IsNull(getKV(p.binding))
  THEN Done(Json(404, [error |-> "Namespace not found"]), <<>>, e)
  ELSE LET c1 == Call("binding", "kv.list", "") IN
    IF fail = 1 THEN Caught(BindingError, <<Failed(c1)>>, e)
    ELSE Done(Json(200, [keys |-> KvList(e.kv), list_complete |-> TRUE]), <<c1>>, e)

\* a GET that takes every falsy value for a missing key: if (!value)
ApiKvGetKeyFalsy(e, p, r, fail) ==
  IF IsNull(getKV(p.binding))
  THEN Done(Json(404, [error |-> "Namespace not found"]), <<>>, e)
  ELSE
    LET key == p.key
        c1 == Call("binding", "kv.getWithMetadata", key)
        got == KvRead(e.kv, key, "text")
    IN
    IF fail = 1 THEN Caught(BindingError, <<Failed(c1)>>, e)
    ELSE IF got.value = Null \/ got.value = Some("")
    THEN Done(Json(404, [error |-> "Key not found"]), <<c1>>, e)
    ELSE Done(Json(200, [key |-> key, value |-> Get(got.value), metadata |-> got.metadata]),
              <<c1>>, e)

\* GET /:binding/keys/:key
ApiKvGetKey(e, p, r, fail) ==
  IF IsNull(getKV(p.binding))
  THEN Done(Json(404, [error |-> "Namespace not found"]), <<>>, e)
  ELSE
    LET key == p.key
        type == OrElse(r.query.type, "text")
        asType == IF type = "json" THEN "json"
                  ELSE IF type = "arrayBuffer" THEN "arrayBuffer" ELSE "text"
        c1 == Call("binding", "kv.getWithMetadata", key)
    IN
    IF fail = 1 THEN Caught(BindingError, <<Failed(c1)>>, e)
    ELSE IF KvThrows(e.kv, key, asType) THEN Caught(JsonSyntaxError, <<Failed(c1)>>, e)
    ELSE
      LET got == KvRead(e.kv, key, asType) IN
      IF got.value = Null
      THEN Done(Json(404, [error |-> "Key not found"]), <<c1>>, e)
      ELSE
        LET value == Get(got.value)
            responseValue == IF type = "arrayBuffer" THEN Base64(value.bytes) ELSE value
        IN Done(Json(200, [key |-> key, value |-> responseValue, metadata |-> got.metadata]),
                <<c1>>, e)

\* PUT /:binding/keys/:key
ApiKvPutKey(e, p, r, fail) ==
  IF IsNull(getKV(p.binding))
  THEN Done(Json(404, [error |-> "Namespace not found"]), <<>>, e)
  ELSE
    LET c1 == Call("body", "c.req.json", "")
        c2 == Call("binding", "kv.put", p.key)
        body == Get(r.body)
    IN
    IF fail = 1 THEN Caught(JsonSyntaxError, <<Failed(c1)>>, e)
    ELSE IF fail = 2 THEN Caught(BindingError, <<c1, Failed(c2)>>, e)
    ELSE Done(Json(200, [success |-> TRUE]), <<c1, c2>>,
              [e EXCEPT !.kv = KvPut(e.kv, p.key, body.value, body.metadata)])

\* DELETE /:binding/keys/:key
ApiKvDeleteKey(e, p, r, fail) ==
  IF IsNull(getKV(p.binding))
  THEN Done(Json(404, [error |-> "Namespace not found"]), <<>>, e)
  ELSE
    LET c1 == Call("binding", "kv.delete", p.key) IN
    IF fail = 1 THEN Caught(BindingError, <<Failed(c1)>>, e)
    ELSE Done(Json(200, [success |-> TRUE]), <<c1>>, [e EXCEPT !.kv = KvDelete(e.kv, p.key)])

\* await Promise.all(keys.map((key) => kv.delete(key))): every delete is
\* started; the one that is made to throw (call number fail - first + 1 of
\* them) deletes nothing, the others take effect
RECURSIVE KvDeleteAll(_, _, _)
KvDeleteAll(store, keys, skip) ==
  IF keys = <<>> THEN store
  ELSE KvDeleteAll(IF skip = 1 THEN store ELSE KvDelete(store, Head(keys)),
                   Tail(keys), skip - 1)

KvDeleteCalls(keys, skip) ==
  [i \in DOMAIN keys |->
     IF i = skip THEN Failed(Call("binding", "kv.delete", keys[i]))
     ELSE Call("binding", "kv.delete", keys[i])]

\* POST /:binding/bulk-delete
ApiKvBulkDelete(e, p, r, fail) ==
  IF IsNull(getKV(p.binding))
  THEN Done(Json(404, [error |-> "Namespace not found"]), <<>>, e)
  ELSE
    LET c1 == Call("body", "c.req.json", "")
        keys == Get(r.body).keys
        skip == fail - 1
    IN
    IF fail = 1 THEN Caught(JsonSyntaxError, <<Failed(c1)>>, e)
    ELSE IF skip \in DOMAIN keys
    THEN Caught(BindingError, <<c1>> \o KvDeleteCalls(keys, skip),
                [e EXCEPT !.kv = KvDeleteAll(e.kv, keys, skip)])
    ELSE Done(Json(200, [success |-> TRUE, deleted |-> Len(keys)]),
              <<c1>> \o KvDeleteCalls(keys, 0),
              [e EXCEPT !.kv = KvDeleteAll(e.kv, keys, 0)])

ApiKvRoutes == <<
  Route("GET", <<>>, "api.kv.namespaces"),
  Route("GET", <<Par("binding"), Lit("keys")>>, "api.kv.list"),
  Route("GET", <<Par("binding"), Lit("keys"), Par("key")>>, "api.kv.get"),
  Route("PUT", <<Par("binding"), Lit("keys"), Par("key")>>, "api.kv.put"),
  Route("DELETE", <<Par("binding"), Lit("keys"), Par("key")>>, "api.kv.delete"),
  Route("POST", <<Par("binding"), Lit("bulk-delete")>>, "api.kv.bulkDelete") >>

-----------------------------------------------------------------------------
(* KV routes of the server package *)

\* localflare.getKVNamespace(name) and its siblings: the binding of that
\* name, or an exception when the configuration has no such binding
Resolves(binding, type) == ~IsNull(BindingOfType(binding, type))

\* GET / : no try block around getDiscoveredBindings
SrvKvListNamespaces(e, p, r, fail) ==
  LET c1 == Call("manifest", "getDiscoveredBindings", "") IN
  IF fail = 1 THEN Escaped(BindingError, <<Failed(c1)>>, e)
  ELSE Done(Json(200, [namespaces |-> {[binding |-> "KV"]}]), <<c1>>, e)

\* GET /:binding/keys
SrvKvListKeys(e, p, r, fail) ==
  LET c1 == Call("resolve", "getKVNamespace", p.binding)
      c2 == Call("binding", "kv.list", "")
  IN
  IF fail = 1 THEN Caught(BindingError, <<Failed(c1)>>, e)
  ELSE IF ~Resolves(p.binding, "kv") THEN Caught(UnboundError, <<Failed(c1)>>, e)
  ELSE IF fail = 2 THEN Caught(BindingError, <<c1, Failed(c2)>>, e)
  ELSE Done(Json(200, [keys |-> KvList(e.kv), list_complete |-> TRUE]), <<c1, c2>>, e)

\* GET /:binding/keys/:key : the metadata is read first, as text, then the
\* value in the type asked for
SrvKvGetKey(e, p, r, fail) ==
  LET key == p.key
      type == OrElse(r.query.type, "text")
      asType == IF type = "json" THEN "json"
                ELSE IF type = "arrayBuffer" THEN "arrayBuffer" ELSE "text"
      c1 == Call("resolve", "getKVNamespace", p.binding)
      c2 == Call("binding", "kv.getWithMetadata", key)
      c3 == Call("binding", "kv.get", key)
  IN
  IF fail = 1 THEN Caught(BindingError, <<Failed(c1)>>, e)
  ELSE IF ~Resolves(p.binding, "kv") THEN Caught(UnboundError, <<Failed(c1)>>, e)
  ELSE IF fail = 2 THEN Caught(BindingError, <<c1, Failed(c2)>>, e)
  ELSE IF fail = 3 THEN Caught(BindingError, <<c1, c2, Failed(c3)>>, e)
  ELSE IF KvThrows(e.kv, key, asType) THEN Caught(JsonSyntaxError, <<c1, c2, Failed(c3)>>, e)
  ELSE
    LET metadata == KvRead(e.kv, key, "text")
        got == KvRead(e.kv, key, asType)
        \* buffer ? Buffer.from(buffer).toString('base64') : null
        value == IF asType = "arrayBuffer" /\ ~IsNull(got.value)
                 THEN Some(Base64(Get(got.value).bytes)) ELSE got.value
    IN
    IF value = Null
    THEN Done(Json(404, [error |-> "Key not found"]), <<c1, c2, c3>>, e)
    ELSE Done(Json(200, [key |-> key, value |-> Get(value), metadata |-> metadata.metadata]),
              <<c1, c2, c3>>, e)

\* PUT /:binding/keys/:key
SrvKvPutKey(e, p, r, fail) ==
  LET c1 == Call("resolve", "getKVNamespace", p.binding)
      c2 == Call("body", "c.req.json", "")
      c3 == Call("binding", "kv.put", p.key)
      body == Get(r.body)
  IN
  IF fail = 1 THEN Caught(BindingError, <<Failed(c1)>>, e)
  ELSE IF ~Resolves(p.binding, "kv") THEN Caught(UnboundError, <<Failed(c1)>>, e)
  ELSE IF fail = 2 THEN Caught(JsonSyntaxError, <<c1, Failed(c2)>>, e)
  ELSE IF fail = 3 THEN Caught(BindingError, <<c1, c2, Failed(c3)>>, e)
  ELSE Done(Json(200, [success |-> TRUE]), <<c1, c2, c3>>,
            [e EXCEPT !.kv = KvPut(e.kv, p.key, body.value, body.metadata)])

\* DELETE /:binding/keys/:key
SrvKvDeleteKey(e, p, r, fail) ==
  LET c1 == Call("resolve", "getKVNamespace", p.binding)
      c2 == Call("binding", "kv.delete", p.key)
  IN
  IF fail = 1 THEN Caught(BindingError, <<Failed(c1)>>, e)
  ELSE IF ~Resolves(p.binding, "kv") THEN Caught(UnboundError, <<Failed(c1)>>, e)
  ELSE IF fail = 2 THEN Caught(BindingError, <<c1, Failed(c2)>>, e)
  ELSE Done(Json(200, [success |-> TRUE]), <<c1, c2>>, [e EXCEPT !.kv = KvDelete(e.kv, p.key)])

\* POST /:binding/bulk-delete
SrvKvBulkDelete(e, p, r, fail) ==
  LET c1 == Call("resolve", "getKVNamespace", p.binding)
      c2 == Call("body", "c.req.json", "")
      keys == Get(r.body).keys
      skip == fail - 2
  IN
  IF fail = 1 THEN Caught(BindingError, <<Failed(c1)>>, e)
  ELSE IF ~Resolves(p.binding, "kv") THEN Caught(UnboundError, <<Failed(c1)>>, e)
  ELSE IF fail = 2 THEN Caught(JsonSyntaxError, <<c1, Failed(c2)>>, e)
  ELSE IF skip \in DOMAIN keys
  THEN Caught(BindingError, <<c1, c2>> \o KvDeleteCalls(keys, skip),
              [e EXCEPT !.kv = KvDeleteAll(e.kv, keys, skip)])
  ELSE Done(Json(200, [success |-> TRUE, deleted |-> Len(keys)]),
            <<c1, c2>> \o KvDeleteCalls(keys, 0),
            [e EXCEPT !.kv = KvDeleteAll(e.kv, keys, 0)])

SrvKvRoutes == <<
  Route("GET", <<>>, "srv.kv.namespaces"),
  Route("GET", <<Par("binding"), Lit("keys")>>, "srv.kv.list"),
  Route("GET", <<Par("binding"), Lit("keys"), Par("key")>>, "srv.kv.get"),
  Route("PUT", <<Par("binding"), Lit("keys"), Par("key")>>, "srv.kv.put"),
  Route("DELETE", <<Par("binding"), Lit("keys"), Par("key")>>, "srv.kv.delete"),
  Route("POST", <<Par("binding"), Lit("bulk-delete")>>, "srv.kv.bulkDelete") >>

-----------------------------------------------------------------------------
(* R2: the bucket as the handlers see it.  An object key is the sequence   *)
(* of its '/'-separated segments.                                          *)

R2Keys == {<<"a">>, <<"a", "meta">>}
R2Bodies == {"c1", "c2"}

EmptyR2 == [k \in R2Keys |-> Null]

\* size and etag of a stored body
SizeOf(body) == CASE body = "c1" -> 2 [] body = "c2" -> 5
EtagOf(body) == CASE body = "c1" -> "etag-c1" [] body = "c2" -> "etag-c2"

\* r2.put(key, body, {httpMetadata: {contentType}, customMetadata})
R2Put(store, key, body, contentType, customMetadata) ==
  [store EXCEPT ![key] =
     Some([key |-> key, body |-> body, contentType |-> contentType,
           customMetadata |-> customMetadata])]

\* r2.delete(key)
R2Delete(store, key) == [store EXCEPT ![key] = Null]

\* r2.delete(keys)
RECURSIVE R2DeleteAll(_, _)
R2DeleteAll(store, keys) ==
  IF keys = <<>> THEN store ELSE R2DeleteAll(R2Delete(store, Head(keys)), Tail(keys))

\* what r2.head(key) and r2.get(key) report of an object
R2HeadOf(o) ==
  [key |-> o.key, size |-> SizeOf(o.body), etag |-> EtagOf(o.body),
   httpEtag |-> EtagOf(o.body), httpMetadata |-> [contentType |-> o.contentType],
   customMetadata |-> o.customMetadata]

\* r2.list(): the objects present
R2List(store) ==
  {[key |-> Get(store[k]).key, size |-> SizeOf(Get(store[k]).body),
    etag |-> EtagOf(Get(store[k]).body), customMetadata |-> Get(store[k]).customMetadata]
   : k \in {x \in R2Keys : ~IsNull(store[x])}}

\* the X-Amz-Meta-* headers of the request: headerKey.slice(11) names the entry
CustomMetadataOf(headers) ==
  IF IsNull(headers.amzMetaOwner) THEN Null
  ELSE Some([owner |-> Get(headers.amzMetaOwner)])

\* c.req.header('Content-Type') || 'application/octet-stream'
ContentTypeOf(headers) == OrElse(headers.contentType, "application/octet-stream")

\* the response that streams an object's body
ObjectResponse(o) ==
  Raw([contentType |-> o.contentType, etag |-> EtagOf(o.body), contentLength |-> SizeOf(o.body)],
      [key |-> o.key, body |-> o.body])

-----------------------------------------------------------------------------
(* R2 routes of the worker API package *)

getR2(binding) == BindingOfType(binding, "r2")

\* GET / : no try block around getManifest
ApiR2ListBuckets(e, p, r, fail) ==
  LET c1 == Call("manifest", "getManifest", "") IN
  IF fail = 1 THEN Escaped(TypeErrorUndefined, <<Failed(c1)>>, e)
  ELSE Done(Json(200, [buckets |-> {[binding |-> "BUCKET", bucket_name |-> "bucket"]}]), <<c1>>, e)

\* GET /:binding/objects
ApiR2ListObjects(e, p, r, fail) ==
  IF IsNull(getR2(p.binding))
  THEN Done(Json(404, [error |-> "Bucket not found"]), <<>>, e)
  ELSE LET c1 == Call("binding", "r2.list", "") IN
    IF fail = 1 THEN Caught(BindingError, <<Failed(c1)>>, e)
    ELSE Done(Json(200, [objects |-> R2List(e.r2), truncated |-> FALSE]), <<c1>>, e)

\* GET /:binding/objects/:key{.+}/meta
ApiR2HeadObject(e, p, r, fail) ==
  IF IsNull(getR2(p.binding))
  THEN Done(Json(404, [error |-> "Bucket not found"]), <<>>, e)
  ELSE LET c1 == Call("binding", "r2.head", p.key) IN
    IF fail = 1 THEN Caught(BindingError, <<Failed(c1)>>, e)
    ELSE IF p.key \notin R2Keys \/ IsNull(e.r2[p.key])
    THEN Done(Json(404, [error |-> "Object not found"]), <<c1>>, e)
    ELSE Done(Json(200, R2HeadOf(Get(e.r2[p.key]))), <<c1>>, e)

\* GET /:binding/objects/:key{.+}
ApiR2GetObject(e, p, r, fail) ==
  IF IsNull(getR2(p.binding))
  THEN Done(Json(404, [error |-> "Bucket not found"]), <<>>, e)
  ELSE LET c1 == Call("binding", "r2.get", p.key) IN
    IF fail = 1 THEN Caught(BindingError, <<Failed(c1)>>, e)
    ELSE IF p.key \notin R2Keys \/ IsNull(e.r2[p.key])
    THEN Done(Json(404, [error |-> "Object not found"]), <<c1>>, e)
    ELSE Done(ObjectResponse(Get(e.r2[p.key])), <<c1>>, e)

\* PUT /:binding/objects/:key{.+}
ApiR2PutObject(e, p, r, fail) ==
  IF IsNull(getR2(p.binding))
  THEN Done(Json(404, [error |-> "Bucket not found"]), <<>>, e)
  ELSE
    LET c1 == Call("binding", "r2.put", p.key)
        body == Get(r.body).bytes
    IN
    IF fail = 1 THEN Caught(BindingError, <<Failed(c1)>>, e)
    ELSE Done(Json(200, [success |-> TRUE, key |-> p.key, size |-> SizeOf(body),
                         etag |-> EtagOf(body)]),
              <<c1>>,
              [e EXCEPT !.r2 = R2Put(e.r2, p.key, body, ContentTypeOf(r.headers),
                                     CustomMetadataOf(r.headers))])

\* DELETE /:binding/objects/:key{.+}
ApiR2DeleteObject(e, p, r, fail) ==
  IF IsNull(getR2(p.binding))
  THEN Done(Json(404, [error |-> "Bucket not found"]), <<>>, e)
  ELSE LET c1 == Call("binding", "r2.delete", p.key) IN
    IF fail = 1 THEN Caught(BindingError, <<Failed(c1)>>, e)
    ELSE Done(Json(200, [success |-> TRUE]), <<c1>>, [e EXCEPT !.r2 = R2Delete(e.r2, p.key)])

\* POST /:binding/bulk-delete : one r2.delete(keys) call
ApiR2BulkDelete(e, p, r, fail) ==
  IF IsNull(getR2(p.binding))
  THEN Done(Json(404, [error |-> "Bucket not found"]), <<>>, e)
  ELSE
    LET c1 == Call("body", "c.req.json", "")
        keys == Get(r.body).keys
        c2 == Call("binding", "r2.delete", keys)
    IN
    IF fail = 1 THEN Caught(JsonSyntaxError, <<Failed(c1)>>, e)
    ELSE IF fail = 2 THEN Caught(BindingError, <<c1, Failed(c2)>>, e)
    ELSE Done(Json(200, [success |-> TRUE, deleted |-> Len(keys)]), <<c1, c2>>,
              [e EXCEPT !.r2 = R2DeleteAll(e.r2, keys)])

ApiR2Routes == <<
  Route("GET", <<>>, "api.r2.buckets"),
  Route("GET", <<Par("binding"), Lit("objects")>>, "api.r2.list"),
  Route("GET", <<Par("binding"), Lit("objects"), Multi("key"), Lit("meta")>>, "api.r2.head"),
  Route("GET", <<Par("binding"), Lit("objects"), Multi("key")>>, "api.r2.get"),
  Route("PUT", <<Par("binding"), Lit("objects"), Multi("key")>>, "api.r2.put"),
  Route("DELETE", <<Par("binding"), Lit("objects"), Multi("key")>>, "api.r2.delete"),
  Route("POST", <<Par("binding"), Lit("bulk-delete")>>, "api.r2.bulkDelete") >>

-----------------------------------------------------------------------------
(* R2 routes of the server package *)

\* GET / : no try block around getDiscoveredBindings
SrvR2ListBuckets(e, p, r, fail) ==
  LET c1 == Call("manifest", "getDiscoveredBindings", "") IN
  IF fail = 1 THEN Escaped(BindingError, <<Failed(c1)>>, e)
  ELSE Done(Json(200, [buckets |-> {[binding |-> "BUCKET"]}]), <<c1>>, e)

\* GET /:binding/objects
SrvR2ListObjects(e, p, r, fail) ==
  LET c1 == Call("resolve", "getR2Bucket", p.binding)
      c2 == Call("binding", "r2.list", "")
  IN
  IF fail = 1 THEN Caught(BindingError, <<Failed(c1)>>, e)
  ELSE IF ~Resolves(p.binding, "r2") THEN Caught(UnboundError, <<Failed(c1)>>, e)
  ELSE IF fail = 2 THEN Caught(BindingError, <<c1, Failed(c2)>>, e)
  ELSE Done(Json(200, [objects |-> R2List(e.r2), truncated |-> FALSE]), <<c1, c2>>, e)

\* GET /:binding/objects/:key{.+}/meta
SrvR2HeadObject(e, p, r, fail) ==
  LET c1 == Call("resolve", "getR2Bucket", p.binding)
      c2 == Call("binding", "r2.head", p.key)
  IN
  IF fail = 1 THEN Caught(BindingError, <<Failed(c1)>>, e)
  ELSE IF ~Resolves(p.binding, "r2") THEN Caught(UnboundError, <<Failed(c1)>>, e)
  ELSE IF fail = 2 THEN Caught(BindingError, <<c1, Failed(c2)>>, e)
  ELSE IF p.key \notin R2Keys \/ IsNull(e.r2[p.key])
  THEN Done(Json(404, [error |-> "Object not found"]), <<c1, c2>>, e)
  ELSE Done(Json(200, R2HeadOf(Get(e.r2[p.key]))), <<c1, c2>>, e)

\* GET /:binding/objects/:key{.+}
SrvR2GetObject(e, p, r, fail) ==
  LET c1 == Call("resolve", "getR2Bucket", p.binding)
      c2 == Call("binding", "r2.get", p.key)
  IN
  IF fail = 1 THEN Caught(BindingError, <<Failed(c1)>>, e)
  ELSE IF ~Resolves(p.binding, "r2") THEN Caught(UnboundError, <<Failed(c1)>>, e)
  ELSE IF fail = 2 THEN Caught(BindingError, <<c1, Failed(c2)>>, e)
  ELSE IF p.key \notin R2Keys \/ IsNull(e.r2[p.key])
  THEN Done(Json(404, [error |-> "Object not found"]), <<c1, c2>>, e)
  ELSE Done(ObjectResponse(Get(e.r2[p.key])), <<c1, c2>>, e)

\* PUT /:binding/objects/:key{.+}
SrvR2PutObject(e, p, r, fail) ==
  LET c1 == Call("resolve", "getR2Bucket", p.binding)
      c2 == Call("body", "c.req.arrayBuffer", "")
      c3 == Call("binding", "r2.put", p.key)
      body == Get(r.body).bytes
  IN
  IF fail = 1 THEN Caught(BindingError, <<Failed(c1)>>, e)
  ELSE IF ~Resolves(p.binding, "r2") THEN Caught(UnboundError, <<Failed(c1)>>, e)
  ELSE IF fail = 2 THEN Caught(BindingError, <<c1, Failed(c2)>>, e)
  ELSE IF fail = 3 THEN Caught(BindingError, <<c1, c2, Failed(c3)>>, e)
  ELSE Done(Json(200, [success |-> TRUE, key |-> p.key, size |-> SizeOf(body),
                       etag |-> EtagOf(body)]),
            <<c1, c2, c3>>,
            [e EXCEPT !.r2 = R2Put(e.r2, p.key, body, ContentTypeOf(r.headers),
                                   CustomMetadataOf(r.headers))])

\* DELETE /:binding/objects/:key{.+}
SrvR2DeleteObject(e, p, r, fail) ==
  LET c1 == Call("resolve", "getR2Bucket", p.binding)
      c2 == Call("binding", "r2.delete", p.key)
  IN
  IF fail = 1 THEN Caught(BindingError, <<Failed(c1)>>, e)
  ELSE IF ~Resolves(p.binding, "r2") THEN Caught(UnboundError, <<Failed(c1)>>, e)
  ELSE IF fail = 2 THEN Caught(BindingError, <<c1, Failed(c2)>>, e)
  ELSE Done(Json(200, [success |-> TRUE]), <<c1, c2>>, [e EXCEPT !.r2 = R2Delete(e.r2, p.key)])

\* POST /:binding/bulk-delete
SrvR2BulkDelete(e, p, r, fail) ==
  LET c1 == Call("resolve", "getR2Bucket", p.binding)
      c2 == Call("body", "c.req.json", "")
      keys == Get(r.body).keys
      c3 == Call("binding", "r2.delete", keys)
  IN
  IF fail = 1 THEN Caught(BindingError, <<Failed(c1)>>, e)
  ELSE IF ~Resolves(p.binding, "r2") THEN Caught(UnboundError, <<Failed(c1)>>, e)
  ELSE IF fail = 2 THEN Caught(JsonSyntaxError, <<c1, Failed(c2)>>, e)
  ELSE IF fail = 3 THEN Caught(BindingError, <<c1, c2, Failed(c3)>>, e)
  ELSE Done(Json(200, [success |-> TRUE, deleted |-> Len(keys)]), <<c1, c2, c3>>,
            [e EXCEPT !.r2 = R2DeleteAll(e.r2, keys)])

SrvR2Routes == <<
  Route("GET", <<>>, "srv.r2.buckets"),
  Route("GET", <<Par("binding"), Lit("objects")>>, "srv.r2.list"),
  Route("GET", <<Par("binding"), Lit("objects"), Multi("key"), Lit("meta")>>, "srv.r2.head"),
  Route("GET", <<Par("binding"), Lit("objects"), Multi("key")>>, "srv.r2.get"),
  Route("PUT", <<Par("binding"), Lit("objects"), Multi("key")>>, "srv.r2.put"),
  Route("DELETE", <<Par("binding"), Lit("objects"), Multi("key")>>, "srv.r2.delete"),
  Route("POST", <<Par("binding"), Lit("bulk-delete")>>, "srv.r2.bulkDelete") >>

-----------------------------------------------------------------------------
(* D1: the database as the handlers see it.  A column value is <<>> for    *)
(* NULL and <<v>> for the value v; Undefined is JavaScript's undefined,    *)
(* which no statement accepts as a bound value.                            *)

Undefined == <<"undefined", "undefined">>

\* PRAGMA table_info: the columns in declaration order, pk is the 1-based
\* position within the primary key, 0 for a column outside it
Col(name, type, notnull, pk) == [name |-> name, type |-> type, notnull |-> notnull, pk |-> pk]

TableInfo ==
  [users |-> <<Col("id", "TEXT", 1, 1), Col("name", "TEXT", 0, 0)>>,
   pairs |-> <<Col("b", "TEXT", 1, 2), Col("a", "TEXT", 1, 1), Col("note", "TEXT", 0, 0)>>,
   events |-> <<Col("msg", "TEXT", 0, 0)>>]

Tables == DOMAIN TableInfo

\* a table that does not exist has no columns
ColumnsOf(table) == IF table \in Tables THEN TableInfo[table] ELSE <<>>

ColumnNames(table) == {c.name : c \in Range(ColumnsOf(table))}

\* the primary-key columns of the schema, in key order (what the model
\* compares the handlers' own derivation with)
SchemaKey(table) ==
  CASE table = "users" -> <<"id">>
    [] table = "pairs" -> <<"a", "b">>
    [] OTHER -> <<>>

EmptyDb == [t \in Tables |-> {}]

\* a statement: its kind, table, SET or INSERT columns, WHERE columns, bound values
Stmt(kind, table, cols, where, binds) ==
  [kind |-> kind, table |-> table, cols |-> cols, where |-> where, binds |-> binds]

Placeholders(s) ==
  CASE s.kind = "INSERT" -> Len(s.cols)
    [] s.kind = "UPDATE" -> Len(s.cols) + Len(s.where)
    [] s.kind = "DELETE" -> Len(s.where)
    [] s.kind = "SELECT" -> 2
    [] OTHER -> 0

\* the row matches the WHERE conditions col_i = value_i; NULL equals nothing
RowMatches(row, where, values) ==
  \A i \in DOMAIN where : values[i] # Null /\ row[where[i]] = values[i]

KeyOf(table, row) == [i \in DOMAIN SchemaKey(table) |-> row[SchemaKey(table)[i]]]

\* the value a statement binds to a column, NULL when it names it not
BoundTo(s, c, default) ==
  IF \E i \in DOMAIN s.cols : s.cols[i] = c
  THEN s.binds[CHOOSE i \in DOMAIN s.cols : s.cols[i] = c] ELSE default

InsertedRow(s) == [c \in ColumnNames(s.table) |-> BoundTo(s, c, Null)]

UpdateHits(db, s) ==
  {row \in db[s.table] :
     RowMatches(row, s.where, SubSeq(s.binds, Len(s.cols) + 1, Len(s.binds)))}

UpdatedRow(s, row) == [c \in ColumnNames(s.table) |-> BoundTo(s, c, row[c])]

RowsAfter(db, s) ==
  CASE s.kind = "INSERT" -> db[s.table] \cup {InsertedRow(s)}
    [] s.kind = "UPDATE" ->
         (db[s.table] \ UpdateHits(db, s)) \cup {UpdatedRow(s, row) : row \in UpdateHits(db, s)}
    [] s.kind = "DELETE" -> db[s.table] \ {row \in db[s.table] : RowMatches(row, s.where, s.binds)}

\* NOT NULL and PRIMARY KEY constraints of the table hold of the rows
Consistent(table, rows) ==
  /\ \A row \in rows : \A c \in Range(ColumnsOf(table)) : c.notnull = 1 => row[c.name] # Null
  /\ SchemaKey(table) # <<>> =>
       \A r1, r2 \in rows : KeyOf(table, r1) = KeyOf(table, r2) => r1 = r2

\* the statement is rejected by the database
StmtFails(db, s) ==
  \/ s.kind \in {"INSERT", "UPDATE", "DELETE", "SELECT", "COUNT"} /\ s.table \notin Tables
  \/ Len(s.binds) # Placeholders(s)
  \/ \E i \in DOMAIN s.binds : s.binds[i] = Undefined
  \/ \E i \in DOMAIN s.cols : s.cols[i] \notin ColumnNames(s.table)
  \/ \E i \in DOMAIN s.where : s.where[i] \notin ColumnNames(s.table)
  \/ s.kind \in {"INSERT", "UPDATE"} /\ Len(s.cols) = 0
  \/ s.kind \in {"UPDATE", "DELETE"} /\ Len(s.where) = 0
  \/ s.kind = "INSERT" /\ SchemaKey(s.table) # <<>> /\
       \E row \in db[s.table] : KeyOf(s.table, row) = KeyOf(s.table, InsertedRow(s))
  \/ s.kind \in {"INSERT", "UPDATE"} /\
       \/ ~Consistent(s.table, RowsAfter(db, s))
       \/ s.kind = "UPDATE" /\
            Cardinality(RowsAfter(db, s)) < Cardinality(db[s.table])
  \/ s.kind = "RAW" /\ s.table = "invalid"

\* the database after the statement, and the changes it reports
StmtEffect(db, s) ==
  CASE s.kind = "INSERT" ->
         [db |-> [db EXCEPT ![s.table] = RowsAfter(db, s)], changes |-> 1]
    [] s.kind = "UPDATE" ->
         [db |-> [db EXCEPT ![s.table] = RowsAfter(db, s)],
          changes |-> Cardinality(UpdateHits(db, s))]
    [] s.kind = "DELETE" ->
         [db |-> [db EXCEPT ![s.table] = RowsAfter(db, s)],
          changes |-> Cardinality(db[s.table]) - Cardinality(RowsAfter(db, s))]
    [] s.kind = "RAW" /\ s.table = "delete-users" ->
         [db |-> [db EXCEPT !.users = {}], changes |-> Cardinality(db.users)]
    [] OTHER -> [db |-> db, changes |-> 0]

\* what a reading statement returns
StmtResults(db, s) ==
  CASE s.kind = "TABLE_INFO" -> [rows |-> ColumnsOf(s.table)]
    [] s.kind = "COUNT" -> [count |-> Cardinality(db[s.table])]
    [] s.kind = "SELECT" -> [rows |-> db[s.table], order |-> s.cols, limit |-> s.binds[1], offset |-> s.binds[2]]
    [] s.kind = "SCHEMA" -> [rows |-> Tables]
    [] s.kind = "RAW" /\ s.table = "select-users" -> [rows |-> db.users]
    [] OTHER -> [rows |-> {}]

\* db.batch(statements): the statements run in order; when one is
\* rejected the batch throws and none of its statements takes effect
RECURSIVE BatchRun(_, _)
BatchRun(db, stmts) ==
  IF stmts = <<>> THEN [ok |-> TRUE, db |-> db, results |-> <<>>]
  ELSE IF StmtFails(db, Head(stmts)) THEN [ok |-> FALSE, db |-> db, results |-> <<>>]
  ELSE LET eff == StmtEffect(db, Head(stmts))
           rest == BatchRun(eff.db, Tail(stmts))
       IN [ok |-> rest.ok, db |-> rest.db,
           results |-> <<[meta |-> [changes |-> eff.changes]]>> \o rest.results]

-----------------------------------------------------------------------------
(* D1 routes of the worker API package: helpers *)

getDatabase(binding) == BindingOfType(binding, "d1")

\* `"${name.replace(/"/g, '""')}"`: the names of the model hold no double
\* quote, the escaped identifier denotes the object of that name
escapeIdentifier(name) == name

\* the columns c with c.pk > 0, sorted by pk, mapped to their names
SortByPk(cols) ==
  LET keyed == {i \in DOMAIN cols : cols[i].pk > 0}
      rank(i) == Cardinality({j \in keyed : cols[j].pk < cols[i].pk}) + 1
  IN [n \in 1..Cardinality(keyed) |-> cols[CHOOSE i \in keyed : rank(i) = n].name]

\* getPrimaryKeys(db, tableName), given the result of its PRAGMA table_info
getPrimaryKeys(tableName) == SortByPk(StmtResults(EmptyDb, Stmt("TABLE_INFO", escapeIdentifier(tableName), <<>>, <<>>, <<>>)).rows)

\* a row identifier: the string of the path parameter or, in a bulk
\* request, a string or an object (its entries as <<column, value>> pairs)
StringId(text) == [form |-> "string", text |-> text, obj |-> <<>>]
ObjectId(obj) == [form |-> "object", text |-> "", obj |-> obj]

\* the identifier strings of the model
RowIdTexts == {"1", "2", "[\"1\"]", "[\"1\",\"x\"]", "[oops"}

\* rowId.startsWith('[')
StartsWithBracket(text) == text \in {"[\"1\"]", "[\"1\",\"x\"]", "[oops"}

\* JSON.parse(rowId): the array, or Null when it throws
JsonArray(text) ==
  CASE text = "[\"1\"]" -> Some(<<Some("1")>>)
    [] text = "[\"1\",\"x\"]" -> Some(<<Some("1"), Some("x")>>)
    [] OTHER -> Null

\* rowId[pk] of an object: undefined when it has no such entry
EntryOf(obj, pk) ==
  IF \E i \in DOMAIN obj : obj[i][1] = pk
  THEN obj[CHOOSE i \in DOMAIN obj : obj[i][1] = pk][2] ELSE Undefined

\* buildPrimaryKeyWhere(primaryKeys, rowId): clause is the sequence of the
\* columns of its `"col" = ?` conditions (joined by AND)
buildPrimaryKeyWhere(primaryKeys, rowId) ==
  LET conditions == [i \in DOMAIN primaryKeys |-> escapeIdentifier(primaryKeys[i])] IN
  IF rowId.form = "string" /\ StartsWithBracket(rowId.text) /\ ~IsNull(JsonArray(rowId.text))
  THEN [throws |-> FALSE, clause |-> conditions, values |-> Get(JsonArray(rowId.text))]
  ELSE IF rowId.form = "object"
  THEN [throws |-> FALSE, clause |-> conditions,
        values |-> [i \in DOMAIN primaryKeys |-> EntryOf(rowId.obj, primaryKeys[i])]]
  ELSE IF Len(primaryKeys) = 1
  THEN [throws |-> FALSE, clause |-> <<escapeIdentifier(primaryKeys[1])>>,
        values |-> <<Some(rowId.text)>>]
  ELSE [throws |-> TRUE, clause |-> <<>>, values |-> <<>>]

\* an update that leaves the primary-key columns in the data
WithoutKeysKept(entries, primaryKeys) == entries

\* Object.entries(data) with the entries of primary-key columns removed
RECURSIVE WithoutKeys(_, _)
WithoutKeys(entries, primaryKeys) ==
  IF entries = <<>> THEN <<>>
  ELSE IF Head(entries)[1] \in Range(primaryKeys)
       THEN WithoutKeys(Tail(entries), primaryKeys)
       ELSE <<Head(entries)>> \o WithoutKeys(Tail(entries), primaryKeys)

\* Object.entries(data) with the undefined values removed
RECURSIVE WithoutUndefined(_)
WithoutUndefined(entries) ==
  IF entries = <<>> THEN <<>>
  ELSE IF Head(entries)[2] = Undefined
       THEN WithoutUndefined(Tail(entries))
       ELSE <<Head(entries)>> \o WithoutUndefined(Tail(entries))

KeysOf(entries) == [i \in DOMAIN entries |-> escapeIdentifier(entries[i][1])]
ValuesOf(entries) == [i \in DOMAIN entries |-> entries[i][2]]

\* one binding call that runs a statement: the outcome of a handler that
\* answers `ok(result)` when the call succeeds
MetaOf(eff) == [success |-> TRUE, meta |-> [changes |-> eff.changes]]

\* the SQL texts a query request carries, and the statement each one is
SqlTexts == {"", "SELECT * FROM users", "DELETE FROM users", "PRAGMA nothing", "NOT SQL"}

SqlStmt(sql) ==
  CASE sql = "SELECT * FROM users" -> Stmt("RAW", "select-users", <<>>, <<>>, <<>>)
    [] sql = "DELETE FROM users" -> Stmt("RAW", "delete-users", <<>>, <<>>, <<>>)
    [] sql = "PRAGMA nothing" -> Stmt("RAW", "pragma", <<>>, <<>>, <<>>)
    [] OTHER -> Stmt("RAW", "invalid", <<>>, <<>>, <<>>)

\* sql.trim().toUpperCase().startsWith(word)
StartsWith(sql, word) ==
  CASE word = "SELECT" -> sql = "SELECT * FROM users"
    [] word = "PRAGMA" -> sql = "PRAGMA nothing"
    [] OTHER -> FALSE

\* Number(text) || fallback for the texts of the model
NumberOr(o, fallback) ==
  CASE o = Some("10") -> 10
    [] o = Some("5000") -> 5000
    [] OTHER -> fallback

Min(a, b) == IF a < b THEN a ELSE b

-----------------------------------------------------------------------------
(* D1 routes of the worker API package: the read routes.  The durations    *)
(* and last row ids the binding reports are left out of the bodies.        *)

NoDatabase(e) == Done(Json(404, [error |-> "Database not found"]), <<>>, e)

\* GET / : no try block around getManifest
ApiD1ListDatabases(e, p, r, fail) ==
  LET c1 == Call("manifest", "getManifest", "") IN
  IF fail = 1 THEN Escaped(TypeErrorUndefined, <<Failed(c1)>>, e)
  ELSE Done(Json(200, [databases |-> {[binding |-> "DB", database_name |-> "db"]}]), <<c1>>, e)

\* GET /:binding/schema
ApiD1Schema(e, p, r, fail) ==
  IF IsNull(getDatabase(p.binding)) THEN NoDatabase(e)
  ELSE LET c1 == Call("binding", "d1.all", Stmt("SCHEMA", "", <<>>, <<>>, <<>>)) IN
    IF fail = 1 THEN Caught(BindingError, <<Failed(c1)>>, e)
    ELSE Done(Json(200, [tables |-> StmtResults(e.d1, c1.arg).rows]), <<c1>>, e)

\* GET /:binding/tables/:table : four statements under one Promise.all
ApiD1TableInfo(e, p, r, fail) ==
  IF IsNull(getDatabase(p.binding)) THEN NoDatabase(e)
  ELSE
    LET escapedTable == escapeIdentifier(p.table)
        cs == << Call("binding", "d1.all", Stmt("TABLE_INFO", escapedTable, <<>>, <<>>, <<>>)),
                 Call("binding", "d1.first", Stmt("COUNT", escapedTable, <<>>, <<>>, <<>>)),
                 Call("binding", "d1.all", Stmt("INDEX_LIST", escapedTable, <<>>, <<>>, <<>>)),
                 Call("binding", "d1.all", Stmt("FOREIGN_KEY_LIST", escapedTable, <<>>, <<>>, <<>>)) >>
        thrown == {i \in DOMAIN cs : i = fail \/ StmtFails(e.d1, cs[i].arg)}
        log == [i \in DOMAIN cs |-> IF i \in thrown THEN Failed(cs[i]) ELSE cs[i]]
    IN
    IF thrown # {}
    THEN Caught(IF fail \in thrown THEN BindingError ELSE D1Error, log, e)
    ELSE
      LET columns == StmtResults(e.d1, cs[1].arg).rows IN
      Done(Json(200, [table |-> p.table, columns |-> columns,
                      primaryKeys |-> SortByPk(columns),
                      indexes |-> StmtResults(e.d1, cs[3].arg).rows,
                      foreignKeys |-> StmtResults(e.d1, cs[4].arg).rows,
                      rowCount |-> StmtResults(e.d1, cs[2].arg).count]),
           log, e)

\* GET /:binding/tables/:table/rows
ApiD1Rows(e, p, r, fail) ==
  IF IsNull(getDatabase(p.binding)) THEN NoDatabase(e)
  ELSE
    LET limit == Min(NumberOr(r.query.limit, 50), 1000)
        offset == NumberOr(r.query.offset, 0)
        sortColumn == r.query.sort
        order == IF OrElse(sortColumn, "") # "" THEN <<escapeIdentifier(Get(sortColumn))>> ELSE <<>>
        c1 == Call("binding", "d1.all",
                   Stmt("SELECT", escapeIdentifier(p.table), order, <<>>, <<Some(limit), Some(offset)>>))
    IN
    IF fail = 1 THEN Caught(BindingError, <<Failed(c1)>>, e)
    ELSE IF StmtFails(e.d1, c1.arg) THEN Caught(D1Error, <<Failed(c1)>>, e)
    ELSE Done(Json(200, [rows |-> StmtResults(e.d1, c1.arg).rows,
                         meta |-> [limit |-> limit, offset |-> offset]]), <<c1>>, e)

\* POST /:binding/query
ApiD1Query(e, p, r, fail) ==
  IF IsNull(getDatabase(p.binding)) THEN NoDatabase(e)
  ELSE
    LET c1 == Call("body", "c.req.json", "")
        sql == Get(r.body).sql
        isRead == StartsWith(Get(sql), "SELECT") \/ StartsWith(Get(sql), "PRAGMA")
                    \/ StartsWith(Get(sql), "EXPLAIN")
        c2 == Call("binding", IF isRead THEN "d1.all" ELSE "d1.run", SqlStmt(Get(sql)))
    IN
    IF fail = 1 THEN CaughtD1(JsonSyntaxError, <<Failed(c1)>>, e)
    ELSE IF OrElse(sql, "") = ""
    THEN Done(Json(400, [error |-> "SQL query is required"]), <<c1>>, e)
    ELSE IF fail = 2 THEN CaughtD1(BindingError, <<c1, Failed(c2)>>, e)
    ELSE IF StmtFails(e.d1, c2.arg) THEN CaughtD1(D1Error, <<c1, Failed(c2)>>, e)
    ELSE IF isRead
    THEN LET results == StmtResults(e.d1, c2.arg).rows IN
         Done(Json(200, [success |-> TRUE, results |-> results,
                         rowCount |-> Cardinality(results), meta |-> [changes |-> 0]]),
              <<c1, c2>>, e)
    ELSE LET eff == StmtEffect(e.d1, c2.arg) IN
         Done(Json(200, MetaOf(eff)), <<c1, c2>>, [e EXCEPT !.d1 = eff.db])

-----------------------------------------------------------------------------
(* D1 routes of the worker API package: the row routes *)

PragmaCall(table) ==
  Call("binding", "d1.all", Stmt("TABLE_INFO", escapeIdentifier(table), <<>>, <<>>, <<>>))

NoPrimaryKey(cs, e) == Done(Json(400, [error |-> "Table has no primary key"]), cs, e)

\* await db.prepare(sql).bind(...).run() as call number n of the handler,
\* after the calls cs, and the response built from its result
RunAndAnswer(e, cs, s, n, fail) ==
  LET c == Call("binding", "d1.run", s) IN
  IF fail = n THEN CaughtD1(BindingError, cs \o <<Failed(c)>>, e)
  ELSE IF StmtFails(e.d1, s) THEN CaughtD1(D1Error, cs \o <<Failed(c)>>, e)
  ELSE LET eff == StmtEffect(e.d1, s) IN
       Done(Json(200, MetaOf(eff)), cs \o <<c>>, [e EXCEPT !.d1 = eff.db])

\* POST /:binding/tables/:table/rows
ApiD1InsertRow(e, p, r, fail) ==
  IF IsNull(getDatabase(p.binding)) THEN NoDatabase(e)
  ELSE
    LET c1 == Call("body", "c.req.json", "")
        entries == WithoutUndefined(Get(r.body).entries)
        columns == KeysOf(entries)
        values == ValuesOf(entries)
    IN
    IF fail = 1 THEN CaughtD1(JsonSyntaxError, <<Failed(c1)>>, e)
    ELSE IF Len(columns) = 0
    THEN Done(Json(400, [error |-> "No data provided"]), <<c1>>, e)
    ELSE RunAndAnswer(e, <<c1>>, Stmt("INSERT", escapeIdentifier(p.table), columns, <<>>, values), 2, fail)

\* PUT /:binding/tables/:table/rows/:rowId
ApiD1UpdateRow(e, p, r, fail) ==
  IF IsNull(getDatabase(p.binding)) THEN NoDatabase(e)
  ELSE
    LET c1 == Call("body", "c.req.json", "")
        c2 == PragmaCall(p.table)
        primaryKeys == getPrimaryKeys(p.table)
        where == buildPrimaryKeyWhere(primaryKeys, StringId(p.rowId))
        updateEntries == WithoutKeys(Get(r.body).entries, primaryKeys)
    IN
    IF fail = 1 THEN CaughtD1(JsonSyntaxError, <<Failed(c1)>>, e)
    ELSE IF fail = 2 THEN CaughtD1(BindingError, <<c1, Failed(c2)>>, e)
    ELSE IF Len(primaryKeys) = 0 THEN NoPrimaryKey(<<c1, c2>>, e)
    ELSE IF where.throws THEN CaughtD1(CompositeKeyError, <<c1, c2>>, e)
    ELSE IF Len(updateEntries) = 0
    THEN Done(Json(400, [error |-> "No data to update"]), <<c1, c2>>, e)
    ELSE RunAndAnswer(e, <<c1, c2>>,
                      Stmt("UPDATE", escapeIdentifier(p.table), KeysOf(updateEntries), where.clause,
                           ValuesOf(updateEntries) \o where.values), 3, fail)

\* PATCH /:binding/tables/:table/rows/:rowId
ApiD1UpdateCell(e, p, r, fail) ==
  IF IsNull(getDatabase(p.binding)) THEN NoDatabase(e)
  ELSE
    LET c1 == Call("body", "c.req.json", "")
        c2 == PragmaCall(p.table)
        column == Get(r.body).column
        value == Get(r.body).value
        primaryKeys == getPrimaryKeys(p.table)
        where == buildPrimaryKeyWhere(primaryKeys, StringId(p.rowId))
    IN
    IF fail = 1 THEN CaughtD1(JsonSyntaxError, <<Failed(c1)>>, e)
    ELSE IF OrElse(column, "") = ""
    THEN Done(Json(400, [error |-> "Column name is required"]), <<c1>>, e)
    ELSE IF fail = 2 THEN CaughtD1(BindingError, <<c1, Failed(c2)>>, e)
    ELSE IF Len(primaryKeys) = 0 THEN NoPrimaryKey(<<c1, c2>>, e)
    ELSE IF where.throws THEN CaughtD1(CompositeKeyError, <<c1, c2>>, e)
    ELSE RunAndAnswer(e, <<c1, c2>>,
                      Stmt("UPDATE", escapeIdentifier(p.table), <<escapeIdentifier(Get(column))>>,
                           where.clause, <<value>> \o where.values), 3, fail)

\* DELETE /:binding/tables/:table/rows/:rowId
ApiD1DeleteRow(e, p, r, fail) ==
  IF IsNull(getDatabase(p.binding)) THEN NoDatabase(e)
  ELSE
    LET c1 == PragmaCall(p.table)
        primaryKeys == getPrimaryKeys(p.table)
        where == buildPrimaryKeyWhere(primaryKeys, StringId(p.rowId))
    IN
    IF fail = 1 THEN CaughtD1(BindingError, <<Failed(c1)>>, e)
    ELSE IF Len(primaryKeys) = 0 THEN NoPrimaryKey(<<c1>>, e)
    ELSE IF where.throws THEN CaughtD1(CompositeKeyError, <<c1>>, e)
    ELSE RunAndAnswer(e, <<c1>>,
                      Stmt("DELETE", escapeIdentifier(p.table), <<>>, where.clause, where.values),
                      2, fail)

IsFirst(x) == x.first

\* a bulk handler that leaves out the statements of repeated row identifiers
BatchDistinct(e, cs, statements, rowIds, fail) ==
  LET firsts == SelectSeq([i \in DOMAIN statements |->
                             [s |-> statements[i],
                              first |-> \A j \in 1..(i - 1) : statements[j] # statements[i]]],
                          IsFirst)
      kept == [i \in DOMAIN firsts |-> firsts[i].s]
      run == BatchRun(e.d1, kept)
      c == Call("binding", "d1.batch", [statements |-> kept, results |-> run.results])
  IN
  IF fail = 3 THEN CaughtD1(BindingError, cs \o <<Failed([c EXCEPT !.arg.results = <<>>])>>, e)
  ELSE IF ~run.ok THEN CaughtD1(D1Error, cs \o <<Failed(c)>>, e)
  ELSE Done(Json(200, [success |-> TRUE,
                       meta |-> [changes |-> SumSeq([i \in DOMAIN run.results |-> run.results[i].meta.changes]),
                                 rowsProcessed |-> Len(rowIds)]]),
            cs \o <<c>>, [e EXCEPT !.d1 = run.db])

\* await db.batch(statements) as call number 3 of a bulk handler, and the
\* response built from its results: totalChanges adds r.meta.changes up
BatchAndAnswer(e, cs, statements, rowIds, fail) ==
  LET run == BatchRun(e.d1, statements)
      c == Call("binding", "d1.batch", [statements |-> statements, results |-> run.results])
  IN
  IF fail = 3 THEN CaughtD1(BindingError, cs \o <<Failed([c EXCEPT !.arg.results = <<>>])>>, e)
  ELSE IF ~run.ok THEN CaughtD1(D1Error, cs \o <<Failed(c)>>, e)
  ELSE Done(Json(200, [success |-> TRUE,
                       meta |-> [changes |-> SumSeq([i \in DOMAIN run.results |-> run.results[i].meta.changes]),
                                 rowsProcessed |-> Len(rowIds)]]),
            cs \o <<c>>, [e EXCEPT !.d1 = run.db])

\* POST /:binding/tables/:table/bulk-delete
ApiD1BulkDelete(e, p, r, fail) ==
  IF IsNull(getDatabase(p.binding)) THEN NoDatabase(e)
  ELSE
    LET c1 == Call("body", "c.req.json", "")
        c2 == PragmaCall(p.table)
        rowIds == Get(r.body).rowIds
        primaryKeys == getPrimaryKeys(p.table)
        wheres == [i \in DOMAIN Get(rowIds) |-> buildPrimaryKeyWhere(primaryKeys, Get(rowIds)[i])]
        statements == [i \in DOMAIN wheres |->
                         Stmt("DELETE", escapeIdentifier(p.table), <<>>, wheres[i].clause, wheres[i].values)]
    IN
    IF fail = 1 THEN CaughtD1(JsonSyntaxError, <<Failed(c1)>>, e)
    ELSE IF IsNull(rowIds) \/ Len(Get(rowIds)) = 0
    THEN Done(Json(400, [error |-> "No row IDs provided"]), <<c1>>, e)
    ELSE IF fail = 2 THEN CaughtD1(BindingError, <<c1, Failed(c2)>>, e)
    ELSE IF Len(primaryKeys) = 0 THEN NoPrimaryKey(<<c1, c2>>, e)
    ELSE IF \E i \in DOMAIN wheres : wheres[i].throws
    THEN CaughtD1(CompositeKeyError, <<c1, c2>>, e)
    ELSE BatchAndAnswer(e, <<c1, c2>>, statements, Get(rowIds), fail)

\* POST /:binding/tables/:table/bulk-update
ApiD1BulkUpdate(e, p, r, fail) ==
  IF IsNull(getDatabase(p.binding)) THEN NoDatabase(e)
  ELSE
    LET c1 == Call("body", "c.req.json", "")
        c2 == PragmaCall(p.table)
        rowIds == Get(r.body).rowIds
        data == Get(r.body).data
        primaryKeys == getPrimaryKeys(p.table)
        updateEntries == WithoutKeys(Get(data), primaryKeys)
        wheres == [i \in DOMAIN Get(rowIds) |-> buildPrimaryKeyWhere(primaryKeys, Get(rowIds)[i])]
        statements == [i \in DOMAIN wheres |->
                         Stmt("UPDATE", escapeIdentifier(p.table), KeysOf(updateEntries),
                              wheres[i].clause, ValuesOf(updateEntries) \o wheres[i].values)]
    IN
    IF fail = 1 THEN CaughtD1(JsonSyntaxError, <<Failed(c1)>>, e)
    ELSE IF IsNull(rowIds) \/ Len(Get(rowIds)) = 0
    THEN Done(Json(400, [error |-> "No row IDs provided"]), <<c1>>, e)
    ELSE IF IsNull(data) \/ Len(Get(data)) = 0
    THEN Done(Json(400, [error |-> "No data provided"]), <<c1>>, e)
    ELSE IF fail = 2 THEN CaughtD1(BindingError, <<c1, Failed(c2)>>, e)
    ELSE IF Len(primaryKeys) = 0 THEN NoPrimaryKey(<<c1, c2>>, e)
    ELSE IF Len(updateEntries) = 0
    THEN Done(Json(400, [error |-> "No data to update (only primary key columns provided)"]),
              <<c1, c2>>, e)
    ELSE IF \E i \in DOMAIN wheres : wheres[i].throws
    THEN CaughtD1(CompositeKeyError, <<c1, c2>>, e)
    ELSE BatchAndAnswer(e, <<c1, c2>>, statements, Get(rowIds), fail)

ApiD1Routes == <<
  Route("GET", <<>>, "api.d1.databases"),
  Route("GET", <<Par("binding"), Lit("schema")>>, "api.d1.schema"),
  Route("GET", <<Par("binding"), Lit("tables"), Par("table")>>, "api.d1.table"),
  Route("GET", <<Par("binding"), Lit("tables"), Par("table"), Lit("rows")>>, "api.d1.rows"),
  Route("POST", <<Par("binding"), Lit("query")>>, "api.d1.query"),
  Route("POST", <<Par("binding"), Lit("tables"), Par("table"), Lit("rows")>>, "api.d1.insert"),
  Route("PUT", <<Par("binding"), Lit("tables"), Par("table"), Lit("rows"), Par("rowId")>>, "api.d1.update"),
  Route("PATCH", <<Par("binding"), Lit("tables"), Par("table"), Lit("rows"), Par("rowId")>>, "api.d1.cell"),
  Route("DELETE", <<Par("binding"), Lit("tables"), Par("table"), Lit("rows"), Par("rowId")>>, "api.d1.delete"),
  Route("POST", <<Par("binding"), Lit("tables"), Par("table"), Lit("bulk-delete")>>, "api.d1.bulkDelete"),
  Route("POST", <<Par("binding"), Lit("tables"), Par("table"), Lit("bulk-update")>>, "api.d1.bulkUpdate") >>

-----------------------------------------------------------------------------
(* D1 routes of the server package: every handler resolves the database   *)
(* inside its try block; the row routes assume a key column named id.     *)

\* GET / : no try block around getDiscoveredBindings
SrvD1ListDatabases(e, p, r, fail) ==
  LET c1 == Call("manifest", "getDiscoveredBindings", "") IN
  IF fail = 1 THEN Escaped(BindingError, <<Failed(c1)>>, e)
  ELSE Done(Json(200, [databases |-> {[binding |-> "DB"]}]), <<c1>>, e)

ResolveD1(p) == Call("resolve", "getD1Database", p.binding)

\* the handler fails while resolving the database: call number 1
SrvD1Unresolved(e, p, fail) ==
  IF fail = 1 THEN Some(Caught(BindingError, <<Failed(ResolveD1(p))>>, e))
  ELSE IF ~Resolves(p.binding, "d1") THEN Some(Caught(UnboundError, <<Failed(ResolveD1(p))>>, e))
  ELSE Null

\* await db.prepare(sql).bind(...).run() as call number n, and the answer
SrvRunAndAnswer(e, cs, s, n, fail) ==
  LET c == Call("binding", "d1.run", s) IN
  IF fail = n THEN Caught(BindingError, cs \o <<Failed(c)>>, e)
  ELSE IF StmtFails(e.d1, s) THEN Caught(D1Error, cs \o <<Failed(c)>>, e)
  ELSE LET eff == StmtEffect(e.d1, s) IN
       Done(Json(200, MetaOf(eff)), cs \o <<c>>, [e EXCEPT !.d1 = eff.db])

\* GET /:binding/schema
SrvD1Schema(e, p, r, fail) ==
  IF ~IsNull(SrvD1Unresolved(e, p, fail)) THEN Get(SrvD1Unresolved(e, p, fail))
  ELSE LET c2 == Call("binding", "d1.all", Stmt("SCHEMA", "", <<>>, <<>>, <<>>)) IN
    IF fail = 2 THEN Caught(BindingError, <<ResolveD1(p), Failed(c2)>>, e)
    ELSE Done(Json(200, [tables |-> StmtResults(e.d1, c2.arg).rows]), <<ResolveD1(p), c2>>, e)

\* GET /:binding/tables/:table : two statements, one after the other
SrvD1TableInfo(e, p, r, fail) ==
  IF ~IsNull(SrvD1Unresolved(e, p, fail)) THEN Get(SrvD1Unresolved(e, p, fail))
  ELSE
    LET c1 == ResolveD1(p)
        c2 == Call("binding", "d1.all", Stmt("TABLE_INFO", p.table, <<>>, <<>>, <<>>))
        c3 == Call("binding", "d1.first", Stmt("COUNT", p.table, <<>>, <<>>, <<>>))
    IN
    IF fail = 2 THEN Caught(BindingError, <<c1, Failed(c2)>>, e)
    ELSE IF fail = 3 THEN Caught(BindingError, <<c1, c2, Failed(c3)>>, e)
    ELSE IF StmtFails(e.d1, c3.arg) THEN Caught(D1Error, <<c1, c2, Failed(c3)>>, e)
    ELSE Done(Json(200, [table |-> p.table, columns |-> StmtResults(e.d1, c2.arg).rows,
                         rowCount |-> StmtResults(e.d1, c3.arg).count]), <<c1, c2, c3>>, e)

\* GET /:binding/tables/:table/rows
SrvD1Rows(e, p, r, fail) ==
  IF ~IsNull(SrvD1Unresolved(e, p, fail)) THEN Get(SrvD1Unresolved(e, p, fail))
  ELSE
    LET c1 == ResolveD1(p)
        limit == NumberOr(r.query.limit, 100)
        offset == NumberOr(r.query.offset, 0)
        c2 == Call("binding", "d1.all",
                   Stmt("SELECT", p.table, <<>>, <<>>, <<Some(limit), Some(offset)>>))
    IN
    IF fail = 2 THEN Caught(BindingError, <<c1, Failed(c2)>>, e)
    ELSE IF StmtFails(e.d1, c2.arg) THEN Caught(D1Error, <<c1, Failed(c2)>>, e)
    ELSE Done(Json(200, [rows |-> StmtResults(e.d1, c2.arg).rows]), <<c1, c2>>, e)

\* POST /:binding/query
SrvD1Query(e, p, r, fail) ==
  IF ~IsNull(SrvD1Unresolved(e, p, fail)) THEN Get(SrvD1Unresolved(e, p, fail))
  ELSE
    LET c1 == ResolveD1(p)
        c2 == Call("body", "c.req.json", "")
        sql == Get(r.body).sql
        isRead == StartsWith(Get(sql), "SELECT")
        c3 == Call("binding", IF isRead THEN "d1.all" ELSE "d1.run", SqlStmt(Get(sql)))
    IN
    IF fail = 2 THEN Caught(JsonSyntaxError, <<c1, Failed(c2)>>, e)
    ELSE IF OrElse(sql, "") = ""
    THEN Done(Json(400, [error |-> "SQL query is required"]), <<c1, c2>>, e)
    ELSE IF fail = 3 THEN Caught(BindingError, <<c1, c2, Failed(c3)>>, e)
    ELSE IF StmtFails(e.d1, c3.arg) THEN Caught(D1Error, <<c1, c2, Failed(c3)>>, e)
    ELSE IF isRead
    THEN Done(Json(200, [success |-> TRUE, results |-> StmtResults(e.d1, c3.arg).rows]),
              <<c1, c2, c3>>, e)
    ELSE LET eff == StmtEffect(e.d1, c3.arg) IN
         Done(Json(200, MetaOf(eff)), <<c1, c2, c3>>, [e EXCEPT !.d1 = eff.db])

\* POST /:binding/tables/:table/rows
SrvD1InsertRow(e, p, r, fail) ==
  IF ~IsNull(SrvD1Unresolved(e, p, fail)) THEN Get(SrvD1Unresolved(e, p, fail))
  ELSE
    LET c1 == ResolveD1(p)
        c2 == Call("body", "c.req.json", "")
        data == Get(r.body).entries
    IN
    IF fail = 2 THEN Caught(JsonSyntaxError, <<c1, Failed(c2)>>, e)
    ELSE SrvRunAndAnswer(e, <<c1, c2>>,
                         Stmt("INSERT", p.table, KeysOf(data), <<>>, ValuesOf(data)), 3, fail)

\* PUT /:binding/tables/:table/rows/:id
SrvD1UpdateRow(e, p, r, fail) ==
  IF ~IsNull(SrvD1Unresolved(e, p, fail)) THEN Get(SrvD1Unresolved(e, p, fail))
  ELSE
    LET c1 == ResolveD1(p)
        c2 == Call("body", "c.req.json", "")
        data == Get(r.body).entries
    IN
    IF fail = 2 THEN Caught(JsonSyntaxError, <<c1, Failed(c2)>>, e)
    ELSE SrvRunAndAnswer(e, <<c1, c2>>,
                         Stmt("UPDATE", p.table, KeysOf(data), <<"id">>,
                              ValuesOf(data) \o <<Some(p.rowId)>>), 3, fail)

\* DELETE /:binding/tables/:table/rows/:id
SrvD1DeleteRow(e, p, r, fail) ==
  IF ~IsNull(SrvD1Unresolved(e, p, fail)) THEN Get(SrvD1Unresolved(e, p, fail))
  ELSE SrvRunAndAnswer(e, <<ResolveD1(p)>>,
                       Stmt("DELETE", p.table, <<>>, <<"id">>, <<Some(p.rowId)>>), 2, fail)

SrvD1Routes == <<
  Route("GET", <<>>, "srv.d1.databases"),
  Route("GET", <<Par("binding"), Lit("schema")>>, "srv.d1.schema"),
  Route("GET", <<Par("binding"), Lit("tables"), Par("table")>>, "srv.d1.table"),
  Route("GET", <<Par("binding"), Lit("tables"), Par("table"), Lit("rows")>>, "srv.d1.rows"),
  Route("POST", <<Par("binding"), Lit("query")>>, "srv.d1.query"),
  Route("POST", <<Par("binding"), Lit("tables"), Par("table"), Lit("rows")>>, "srv.d1.insert"),
  Route("PUT", <<Par("binding"), Lit("tables"), Par("table"), Lit("rows"), Par("rowId")>>, "srv.d1.update"),
  Route("DELETE", <<Par("binding"), Lit("tables"), Par("table"), Lit("rows"), Par("rowId")>>, "srv.d1.delete") >>

-----------------------------------------------------------------------------
(* Queue and log routes of the worker API package *)

getQueue(binding) == BindingOfType(binding, "queue")

\* GET / : no try block around getManifest
ApiQueuesList(e, p, r, fail) ==
  LET c1 == Call("manifest", "getManifest", "") IN
  IF fail = 1 THEN Escaped(TypeErrorUndefined, <<Failed(c1)>>, e)
  ELSE Done(Json(200, [producers |-> {[binding |-> "QUEUE", queue |-> "queue"]}, consumers |-> {}]),
            <<c1>>, e)

\* POST /:binding/send ; the body's message is Undefined when it has none
ApiQueuesSend(e, p, r, fail) ==
  IF IsNull(getQueue(p.binding))
  THEN Done(Json(404, [error |-> "Queue not found"]), <<>>, e)
  ELSE
    LET c1 == Call("body", "c.req.json", "")
        message == Get(r.body).message
        c2 == Call("binding", "queue.send", message)
    IN
    IF fail = 1 THEN Caught(JsonSyntaxError, <<Failed(c1)>>, e)
    ELSE IF message = Undefined
    THEN Done(Json(400, [error |-> "Message is required"]), <<c1>>, e)
    ELSE IF fail = 2 THEN Caught(BindingError, <<c1, Failed(c2)>>, e)
    ELSE Done(Json(200, [success |-> TRUE]), <<c1, c2>>, e)

\* POST /:binding/send-batch ; messages is Null when the body holds no array
ApiQueuesSendBatch(e, p, r, fail) ==
  IF IsNull(getQueue(p.binding))
  THEN Done(Json(404, [error |-> "Queue not found"]), <<>>, e)
  ELSE
    LET c1 == Call("body", "c.req.json", "")
        messages == Get(r.body).messages
        c2 == Call("binding", "queue.sendBatch", messages)
    IN
    IF fail = 1 THEN Caught(JsonSyntaxError, <<Failed(c1)>>, e)
    ELSE IF IsNull(messages) \/ Len(Get(messages)) = 0
    THEN Done(Json(400, [error |-> "Messages array is required and must not be empty"]), <<c1>>, e)
    ELSE IF fail = 2 THEN Caught(BindingError, <<c1, Failed(c2)>>, e)
    ELSE Done(Json(200, [success |-> TRUE, count |-> Len(Get(messages))]), <<c1, c2>>, e)

ApiQueuesRoutes == <<
  Route("GET", <<>>, "api.queues.list"),
  Route("POST", <<Par("binding"), Lit("send")>>, "api.queues.send"),
  Route("POST", <<Par("binding"), Lit("send-batch")>>, "api.queues.sendBatch") >>

\* GET / of the log routes
ApiLogsList(e, p, r, fail) == Done(Json(200, [logs |-> <<>>]), <<>>, e)

\* DELETE / of the log routes
ApiLogsClear(e, p, r, fail) == Done(Json(200, [success |-> TRUE]), <<>>, e)

\* GET /stream : an event stream that carries one comment and is closed at once
ApiLogsStream(e, p, r, fail) ==
  Done(Raw([contentType |-> "text/event-stream"], [events |-> <<>>, closed |-> TRUE]), <<>>, e)

ApiLogsRoutes == <<
  Route("GET", <<>>, "api.logs.list"),
  Route("DELETE", <<>>, "api.logs.clear"),
  Route("GET", <<Lit("stream")>>, "api.logs.stream") >>

-----------------------------------------------------------------------------
(* Durable Object routes of the server package *)

\* the hexadecimal identifiers of the model; newUniqueId() returns any of them
DoIds == {"aa", "bb"}

\* namespace.idFromName(name).toString()
IdFromName(name) == CASE name = "room" -> "aa" [] OTHER -> "bb"

\* what the object answers to the forwarded request: its own status
DoFetch(path) == IF path = <<"ok">> THEN 200 ELSE 403

\* GET / : no try block around getDiscoveredBindings
SrvDoList(e, p, r, fail) ==
  LET c1 == Call("manifest", "getDiscoveredBindings", "") IN
  IF fail = 1 THEN Escaped(BindingError, <<Failed(c1)>>, e)
  ELSE Done(Json(200, [durableObjects |-> {[binding |-> "COUNTER"]}]), <<c1>>, e)

\* a handler that answers a name with an identifier of its own making
SrvDoGetIdOwn(e, p, r, fail, fresh) ==
  LET c1 == Call("resolve", "getDurableObjectNamespace", p.binding)
      c2 == Call("body", "c.req.json", "")
      c3 == Call("binding", "idFromName", "")
  IN
  IF fail = 1 \/ ~Resolves(p.binding, "do") THEN Caught(BindingError, <<Failed(c1)>>, e)
  ELSE IF fail = 2 THEN Caught(JsonSyntaxError, <<c1, Failed(c2)>>, e)
  ELSE IF fail = 3 THEN Caught(BindingError, <<c1, c2, Failed(c3)>>, e)
  ELSE Done(Json(200, [id |-> fresh]), <<c1, c2, c3>>, e)

\* POST /:binding/id ; fresh is what newUniqueId() returns this time (the
\* call is logged with the identifier it returned)
SrvDoGetId(e, p, r, fail, fresh) ==
  LET c1 == Call("resolve", "getDurableObjectNamespace", p.binding)
      c2 == Call("body", "c.req.json", "")
      id == Get(r.body).id
      name == Get(r.body).name
  IN
  IF fail = 1 THEN Caught(BindingError, <<Failed(c1)>>, e)
  ELSE IF ~Resolves(p.binding, "do") THEN Caught(UnboundError, <<Failed(c1)>>, e)
  ELSE IF fail = 2 THEN Caught(JsonSyntaxError, <<c1, Failed(c2)>>, e)
  ELSE IF OrElse(id, "") # ""
  THEN LET c3 == Call("binding", "idFromString", Get(id)) IN
       IF fail = 3 \/ Get(id) \notin DoIds THEN Caught(BindingError, <<c1, c2, Failed(c3)>>, e)
       ELSE Done(Json(200, [id |-> Get(id)]), <<c1, c2, c3>>, e)
  ELSE IF OrElse(name, "") # ""
  THEN LET c3 == Call("binding", "idFromName", Get(name)) IN
       IF fail = 3 THEN Caught(BindingError, <<c1, c2, Failed(c3)>>, e)
       ELSE Done(Json(200, [id |-> IdFromName(Get(name))]), <<c1, c2, c3>>, e)
  ELSE LET c3 == Call("binding", "newUniqueId", fresh) IN
       IF fail = 3 THEN Caught(BindingError, <<c1, c2, Failed(c3)>>, e)
       ELSE Done(Json(200, [id |-> fresh]), <<c1, c2, c3>>, e)

\* the fetch proxy without its try block
SrvDoFetchUncaught(e, p, r, fail) ==
  LET c1 == Call("resolve", "getDurableObjectNamespace", p.binding)
      c2 == Call("binding", "idFromString", p.id)
      c3 == Call("binding", "namespace.get", p.id)
      c4 == Call("binding", "stub.fetch", p.rest)
  IN
  IF fail = 1 THEN Escaped(BindingError, <<Failed(c1)>>, e)
  ELSE IF ~Resolves(p.binding, "do") THEN Escaped(UnboundError, <<Failed(c1)>>, e)
  ELSE IF fail = 2 \/ p.id \notin DoIds THEN Escaped(BindingError, <<c1, Failed(c2)>>, e)
  ELSE IF fail = 3 THEN Escaped(BindingError, <<c1, c2, Failed(c3)>>, e)
  ELSE IF fail = 4 THEN Escaped(BindingError, <<c1, c2, c3, Failed(c4)>>, e)
  ELSE Done([status |-> DoFetch(p.rest), type |-> "forwarded", body |-> [path |-> p.rest]],
            <<c1, c2, c3, c4>>, e)

\* ALL /:binding/:id/fetch/* : the object's response is returned as it is
SrvDoFetch(e, p, r, fail) ==
  LET c1 == Call("resolve", "getDurableObjectNamespace", p.binding)
      c2 == Call("binding", "idFromString", p.id)
      c3 == Call("binding", "namespace.get", p.id)
      c4 == Call("binding", "stub.fetch", p.rest)
  IN
  IF fail = 1 THEN Caught(BindingError, <<Failed(c1)>>, e)
  ELSE IF ~Resolves(p.binding, "do") THEN Caught(UnboundError, <<Failed(c1)>>, e)
  ELSE IF fail = 2 \/ p.id \notin DoIds THEN Caught(BindingError, <<c1, Failed(c2)>>, e)
  ELSE IF fail = 3 THEN Caught(BindingError, <<c1, c2, Failed(c3)>>, e)
  ELSE IF fail = 4 THEN Caught(BindingError, <<c1, c2, c3, Failed(c4)>>, e)
  ELSE Done([status |-> DoFetch(p.rest), type |-> "forwarded", body |-> [path |-> p.rest]],
            <<c1, c2, c3, c4>>, e)

SrvDoRoutes == <<
  Route("GET", <<>>, "srv.do.list"),
  Route("POST", <<Par("binding"), Lit("id")>>, "srv.do.id"),
  Route("ALL", <<Par("binding"), Par("id"), Lit("fetch"), Star>>, "srv.do.fetch") >>

-----------------------------------------------------------------------------
(* Requests.  A request names the application (the worker API package     *)
(* "api" or the server package "srv"), the route group it is mounted      *)
(* under, and the path below the group.  The sets are narrow when every   *)
(* group is served and wide when one group is studied alone.              *)

Req(app, group, method, path, query, headers, body) ==
  [app |-> app, group |-> group, method |-> method, path |-> path,
   query |-> query, headers |-> headers, body |-> body]

NoQuery == [type |-> Null, limit |-> Null, offset |-> Null, sort |-> Null]
NoHeaders == [contentType |-> Null, amzMetaOwner |-> Null]

Plain(app, group, method, path) == Req(app, group, method, path, NoQuery, NoHeaders, Null)
WithBody(app, group, method, path, body) ==
  Req(app, group, method, path, NoQuery, NoHeaders, Some(body))

KvRequests(app, wide) ==
  LET keys == IF wide THEN KvKeys ELSE {"k1"}
      values == IF wide THEN KvValues ELSE {"", "7"}
      metas == IF wide THEN KvMetas ELSE {Null}
      types == {Null, Some("json"), Some("arrayBuffer")} \cup (IF wide THEN {Some("text")} ELSE {})
      bindings == {"KV", "DB"}
  IN
  {Plain(app, "kv", "GET", <<>>)}
  \cup {Plain(app, "kv", "GET", <<b, w>>) : b \in bindings, w \in {"keys", "values"}}
  \cup {Req(app, "kv", "GET", <<b, "keys", k>>, [NoQuery EXCEPT !.type = t], NoHeaders, Null) :
          b \in bindings, k \in keys, t \in types}
  \cup {WithBody(app, "kv", "PUT", <<b, "keys", k>>, [value |-> v, metadata |-> m]) :
          b \in bindings, k \in keys, v \in values, m \in metas}
  \cup {Plain(app, "kv", "DELETE", <<b, "keys", k>>) : b \in bindings, k \in keys}
  \cup {WithBody(app, "kv", "POST", <<b, "bulk-delete">>, [keys |-> ks]) :
          b \in bindings, ks \in SeqsUpTo(keys, MaxBulk)}

R2Requests(app, wide) ==
  LET bodies == IF wide THEN R2Bodies ELSE {"c1"}
      headers == {NoHeaders} \cup
                 (IF wide THEN {[contentType |-> Some("text/plain"), amzMetaOwner |-> Some("me")]}
                  ELSE {})
      bindings == {"BUCKET", "KV"}
      keys == IF wide THEN R2Keys ELSE {<<"a">>}
  IN
  {Plain(app, "r2", "GET", <<>>)}
  \cup {Plain(app, "r2", "GET", <<b, "objects">>) : b \in bindings}
  \cup {Plain(app, "r2", m, <<b, "objects">> \o k) : b \in bindings, k \in keys, m \in {"GET", "DELETE"}}
  \cup {Plain(app, "r2", "GET", <<b, "objects">> \o k \o <<"meta">>) : b \in bindings, k \in keys}
  \cup {Req(app, "r2", "PUT", <<b, "objects">> \o k, NoQuery, h, Some([bytes |-> c])) :
          b \in bindings, k \in keys, h \in headers, c \in bodies}
  \cup {WithBody(app, "r2", "POST", <<b, "bulk-delete">>, [keys |-> ks]) :
          b \in bindings, ks \in SeqsUpTo(keys, MaxBulk)}

\* the objects of request bodies, as their entries
D1Datas(wide) ==
  { <<>>,
    << <<"id", Some("1")>> >>,
    << <<"id", Some("1")>>, <<"name", Some("ann")>> >> }
  \cup (IF wide
        THEN { << <<"id", Some("2")>>, <<"name", Null>> >>,
               << <<"a", Some("1")>>, <<"b", Some("y")>>, <<"note", Some("n")>> >> }
        ELSE {})

\* the row identifiers of bulk request bodies
D1BulkIds(wide) ==
  {StringId("1"), ObjectId(<<>>)}
  \cup (IF wide
        THEN {StringId("2"), ObjectId(<< <<"a", Some("1")>>, <<"b", Some("y")>> >>)}
        ELSE {})

D1Requests(app, wide) ==
  LET tables == {"users", "events"} \cup (IF wide THEN {"pairs"} ELSE {})
      rowIds == IF wide THEN RowIdTexts ELSE {"1", "[oops"}
      bindings == IF wide THEN {"DB"} ELSE {"DB", "KV"}
      sorts == IF wide THEN {Null, Some("name")} ELSE {Null}
      limits == IF wide THEN {Null, Some("5000")} ELSE {Null}
      bulk == {Null} \cup {Some(s) : s \in SeqsUpTo(D1BulkIds(wide), MaxBulk)}
      datas == {Null} \cup {Some(d) : d \in {<<>>, << <<"id", Some("1")>> >>, << <<"name", Some("ann")>> >>}
                                              \cup (IF wide THEN {<< <<"note", Some("m")>> >>} ELSE {})}
  IN
  {Plain(app, "d1", "GET", <<>>)}
  \cup {Plain(app, "d1", "GET", <<b, "schema">>) : b \in bindings}
  \cup {Plain(app, "d1", "GET", <<b, "tables", t>>) : b \in bindings, t \in tables \cup {"ghost"}}
  \cup {Req(app, "d1", "GET", <<b, "tables", t, "rows">>,
            [NoQuery EXCEPT !.limit = l, !.sort = s], NoHeaders, Null) :
          b \in bindings, t \in tables, l \in limits, s \in sorts}
  \cup {WithBody(app, "d1", "POST", <<b, "query">>, [sql |-> q]) :
          b \in bindings, q \in {Null} \cup {Some(x) : x \in SqlTexts}}
  \cup {WithBody(app, "d1", "POST", <<b, "tables", t, "rows">>, [entries |-> d]) :
          b \in bindings, t \in tables, d \in D1Datas(wide)}
  \cup {WithBody(app, "d1", "PUT", <<b, "tables", t, "rows", i>>, [entries |-> d]) :
          b \in bindings, t \in tables, i \in rowIds, d \in D1Datas(wide)}
  \cup {WithBody(app, "d1", "PATCH", <<b, "tables", t, "rows", i>>, [column |-> c, value |-> v]) :
          b \in bindings, t \in tables, i \in rowIds,
          c \in {Null, Some("name")} \cup (IF wide THEN {Some(""), Some("id")} ELSE {}),
          v \in IF wide THEN {Some("2")} ELSE {Some("ann")}}
  \cup {Plain(app, "d1", "DELETE", <<b, "tables", t, "rows", i>>) :
          b \in bindings, t \in tables, i \in rowIds}
  \cup {WithBody(app, "d1", "POST", <<b, "tables", t, "bulk-delete">>, [rowIds |-> ids]) :
          b \in bindings, t \in tables, ids \in bulk}
  \cup {WithBody(app, "d1", "POST", <<b, "tables", t, "bulk-update">>, [rowIds |-> ids, data |-> d]) :
          b \in bindings, t \in tables, ids \in bulk, d \in datas}

QueueRequests ==
  {Plain("api", "queues", "GET", <<>>)}
  \cup {WithBody("api", "queues", "POST", <<b, "send">>, [message |-> m]) :
          b \in {"QUEUE", "KV"}, m \in {Undefined, Some("job"), Null}}
  \cup {WithBody("api", "queues", "POST", <<b, "send-batch">>, [messages |-> ms]) :
          b \in {"QUEUE", "KV"}, ms \in {Null, Some(<<>>), Some(<<"job">>)}}

LogRequests ==
  {Plain("api", "logs", "GET", <<>>), Plain("api", "logs", "DELETE", <<>>),
   Plain("api", "logs", "GET", <<"stream">>)}

DoRequests ==
  {Plain("srv", "do", "GET", <<>>)}
  \cup {WithBody("srv", "do", "POST", <<b, "id">>, [id |-> i, name |-> n]) :
          b \in {"COUNTER", "KV"},
          i \in {Null, Some("aa"), Some("zz")}, n \in {Null, Some("room")}}
  \cup {Plain("srv", "do", m, <<b, i, "fetch">> \o rest) :
          m \in {"GET", "POST"}, b \in {"COUNTER", "KV"}, i \in {"aa", "zz"},
          rest \in {<<"ok">>, <<"forbidden">>}}

-----------------------------------------------------------------------------
(* Dispatch: the route tables of the two applications *)

RoutesOf(app, group) ==
  CASE app = "api" /\ group = "kv" -> ApiKvRoutes
    [] app = "api" /\ group = "r2" -> ApiR2Routes
    [] app = "api" /\ group = "d1" -> ApiD1Routes
    [] app = "api" /\ group = "queues" -> ApiQueuesRoutes
    [] app = "api" /\ group = "logs" -> ApiLogsRoutes
    [] app = "srv" /\ group = "kv" -> SrvKvRoutes
    [] app = "srv" /\ group = "r2" -> SrvR2Routes
    [] app = "srv" /\ group = "d1" -> SrvD1Routes
    [] app = "srv" /\ group = "do" -> SrvDoRoutes
    [] OTHER -> <<>>

RouteOf(rq) == FirstMatch(RoutesOf(rq.app, rq.group), rq.method, rq.path)

\* the handler the router selects for the request, "none" when no route matches
HandlerOf(rq) ==
  IF RouteOf(rq) = 0 THEN "none" ELSE RoutesOf(rq.app, rq.group)[RouteOf(rq)].h

ParamsOf(rq) == Get(Match(RoutesOf(rq.app, rq.group)[RouteOf(rq)].pat, rq.path))

\* the framework's answer when no route matches
NotFound(e) ==
  Done(Text(404, "404 Not Found"), <<>>, e)

\* app.fetch(request) for the groups that the comparison of two runs
\* serves: the router's handler is invoked, or the framework answers 404
Dispatch(e, rq, fail, fresh) ==
  LET h == HandlerOf(rq)
      p == IF h = "none" THEN <<>> ELSE ParamsOf(rq)
  IN
  CASE h = "api.kv.namespaces" -> ApiKvListNamespaces(e, p, rq, fail)
    [] h = "api.kv.list" -> ApiKvListKeys(e, p, rq, fail)
    [] h = "api.kv.get" -> ApiKvGetKey(e, p, rq, fail)
    [] h = "api.kv.put" -> ApiKvPutKey(e, p, rq, fail)
    [] h = "api.kv.delete" -> ApiKvDeleteKey(e, p, rq, fail)
    [] h = "api.kv.bulkDelete" -> ApiKvBulkDelete(e, p, rq, fail)
    [] h = "srv.do.list" -> SrvDoList(e, p, rq, fail)
    [] h = "srv.do.id" -> SrvDoGetId(e, p, rq, fail, fresh)
    [] h = "srv.do.fetch" -> SrvDoFetch(e, p, rq, fail)
    [] OTHER -> NotFound(e)

\* the injected failure took place: call number fail was made and threw
FaultTaken(out, fail) ==
  fail = 0 \/ (fail \in DOMAIN out.calls /\ ~out.calls[fail].ok)

-----------------------------------------------------------------------------
(* Serving requests *)

EmptyEnv == [kv |-> EmptyKv, r2 |-> EmptyR2, d1 |-> EmptyDb]

NoFault == [fail |-> 0, fresh |-> "aa"]

Idle == req = Null

\* the record of the last successful single write per key
NoWrites == [kv |-> [k \in KvKeys |-> Null], r2 |-> [k \in R2Keys |-> Null]]

PutDone(h, rq, out, k, hs) ==
  /\ h \in hs
  /\ out.resp.status = 200
  /\ ParamsOf(rq).key = k

LastAfter(h, rq, e, out) ==
  [kv |-> [k \in KvKeys |->
      IF PutDone(h, rq, out, k, {"api.kv.put", "srv.kv.put"})
      THEN Some([op |-> "put", value |-> Get(rq.body).value, metadata |-> Get(rq.body).metadata])
      ELSE IF PutDone(h, rq, out, k, {"api.kv.delete", "srv.kv.delete"})
      THEN Some([op |-> "delete", value |-> "", metadata |-> Null])
      ELSE IF out.env.kv[k] # e.kv[k] THEN Null
      ELSE last.kv[k]],
   r2 |-> [k \in R2Keys |->
      IF PutDone(h, rq, out, k, {"api.r2.put", "srv.r2.put"})
      THEN Some([op |-> "put", body |-> Get(rq.body).bytes,
                 contentType |-> ContentTypeOf(rq.headers),
                 customMetadata |-> CustomMetadataOf(rq.headers)])
      ELSE IF out.env.r2[k] # e.r2[k] THEN Null
      ELSE last.r2[k]]]

\* the requests of the set R that the router hands to handler h
Arrivals(h, R) == {rq \in R : HandlerOf(rq) = h}

Faults == 0..MaxFault

\* the request rq arrived (while the application was idle), handler h
\* answered it with the outcome out
Answer(rq, h, out, fail, fresh) ==
  /\ FaultTaken(out, fail)
  /\ env' = out.env
  /\ req' = Some(rq)
  /\ handler' = h
  /\ resp' = Some(out.resp)
  /\ calls' = out.calls
  /\ fault' = [fail |-> fail, fresh |-> fresh]
  /\ last' = LastAfter(h, rq, env, out)
  /\ UNCHANGED <<scope, twin, cli, tui, tail, cell, form>>

\* the response has been sent
Finish ==
  /\ ~Idle
  /\ req' = Null /\ handler' = "" /\ resp' = Null /\ calls' = <<>> /\ fault' = NoFault
  /\ twin' = [twin EXCEPT !.resp = Null, !.calls = <<>>, !.fail = 0, !.probed = FALSE]
  /\ UNCHANGED <<env, scope, last, cli, tui, tail, cell, form>>

Wide(group) == scope = group

\* the request sets of the two widths, per application
KvSets == [app \in {"api", "srv"} |-> [wide \in BOOLEAN |-> KvRequests(app, wide)]]
R2Sets == [app \in {"api", "srv"} |-> [wide \in BOOLEAN |-> R2Requests(app, wide)]]
D1Sets == [app \in {"api", "srv"} |-> [wide \in BOOLEAN |-> D1Requests(app, wide)]]

KvIn(app) == KvSets[app][Wide("kv")]
R2In(app) == R2Sets[app][Wide("r2")]
\* the D1 routes of the server package are studied in the narrow set only
D1In(app) == D1Sets[app][Wide("d1") /\ app = "api"]

OnApiKvListNamespaces ==
  Idle /\ \E rq \in Arrivals("api.kv.namespaces", KvIn("api")), fail \in Faults :
    Answer(rq, "api.kv.namespaces", ApiKvListNamespaces(env, ParamsOf(rq), rq, fail), fail, "aa")
OnApiKvListKeys ==
  Idle /\ \E rq \in Arrivals("api.kv.list", KvIn("api")), fail \in Faults :
    Answer(rq, "api.kv.list", ApiKvListKeys(env, ParamsOf(rq), rq, fail), fail, "aa")
OnApiKvGetKey ==
  Idle /\ \E rq \in Arrivals("api.kv.get", KvIn("api")), fail \in Faults :
    Answer(rq, "api.kv.get", ApiKvGetKey(env, ParamsOf(rq), rq, fail), fail, "aa")
OnApiKvPutKey ==
  Idle /\ \E rq \in Arrivals("api.kv.put", KvIn("api")), fail \in Faults :
    Answer(rq, "api.kv.put", ApiKvPutKey(env, ParamsOf(rq), rq, fail), fail, "aa")
OnApiKvDeleteKey ==
  Idle /\ \E rq \in Arrivals("api.kv.delete", KvIn("api")), fail \in Faults :
    Answer(rq, "api.kv.delete", ApiKvDeleteKey(env, ParamsOf(rq), rq, fail), fail, "aa")
OnApiKvBulkDelete ==
  Idle /\ \E rq \in Arrivals("api.kv.bulkDelete", KvIn("api")), fail \in Faults :
    Answer(rq, "api.kv.bulkDelete", ApiKvBulkDelete(env, ParamsOf(rq), rq, fail), fail, "aa")
OnSrvKvListNamespaces ==
  Idle /\ \E rq \in Arrivals("srv.kv.namespaces", KvIn("srv")), fail \in Faults :
    Answer(rq, "srv.kv.namespaces", SrvKvListNamespaces(env, ParamsOf(rq), rq, fail), fail, "aa")
OnSrvKvListKeys ==
  Idle /\ \E rq \in Arrivals("srv.kv.list", KvIn("srv")), fail \in Faults :
    Answer(rq, "srv.kv.list", SrvKvListKeys(env, ParamsOf(rq), rq, fail), fail, "aa")
OnSrvKvGetKey ==
  Idle /\ \E rq \in Arrivals("srv.kv.get", KvIn("srv")), fail \in Faults :
    Answer(rq, "srv.kv.get", SrvKvGetKey(env, ParamsOf(rq), rq, fail), fail, "aa")
OnSrvKvPutKey ==
  Idle /\ \E rq \in Arrivals("srv.kv.put", KvIn("srv")), fail \in Faults :
    Answer(rq, "srv.kv.put", SrvKvPutKey(env, ParamsOf(rq), rq, fail), fail, "aa")
OnSrvKvDeleteKey ==
  Idle /\ \E rq \in Arrivals("srv.kv.delete", KvIn("srv")), fail \in Faults :
    Answer(rq, "srv.kv.delete", SrvKvDeleteKey(env, ParamsOf(rq), rq, fail), fail, "aa")
OnSrvKvBulkDelete ==
  Idle /\ \E rq \in Arrivals("srv.kv.bulkDelete", KvIn("srv")), fail \in Faults :
    Answer(rq, "srv.kv.bulkDelete", SrvKvBulkDelete(env, ParamsOf(rq), rq, fail), fail, "aa")
OnKvNoRoute ==
  Idle /\ \E rq \in Arrivals("none", KvIn("api") \cup KvIn("srv")) :
    Answer(rq, "none", NotFound(env), 0, "aa")

OnApiR2ListBuckets ==
  Idle /\ \E rq \in Arrivals("api.r2.buckets", R2In("api")), fail \in Faults :
    Answer(rq, "api.r2.buckets", ApiR2ListBuckets(env, ParamsOf(rq), rq, fail), fail, "aa")
OnApiR2ListObjects ==
  Idle /\ \E rq \in Arrivals("api.r2.list", R2In("api")), fail \in Faults :
    Answer(rq, "api.r2.list", ApiR2ListObjects(env, ParamsOf(rq), rq, fail), fail, "aa")
OnApiR2HeadObject ==
  Idle /\ \E rq \in Arrivals("api.r2.head", R2In("api")), fail \in Faults :
    Answer(rq, "api.r2.head", ApiR2HeadObject(env, ParamsOf(rq), rq, fail), fail, "aa")
OnApiR2GetObject ==
  Idle /\ \E rq \in Arrivals("api.r2.get", R2In("api")), fail \in Faults :
    Answer(rq, "api.r2.get", ApiR2GetObject(env, ParamsOf(rq), rq, fail), fail, "aa")
OnApiR2PutObject ==
  Idle /\ \E rq \in Arrivals("api.r2.put", R2In("api")), fail \in Faults :
    Answer(rq, "api.r2.put", ApiR2PutObject(env, ParamsOf(rq), rq, fail), fail, "aa")
OnApiR2DeleteObject ==
  Idle /\ \E rq \in Arrivals("api.r2.delete", R2In("api")), fail \in Faults :
    Answer(rq, "api.r2.delete", ApiR2DeleteObject(env, ParamsOf(rq), rq, fail), fail, "aa")
OnApiR2BulkDelete ==
  Idle /\ \E rq \in Arrivals("api.r2.bulkDelete", R2In("api")), fail \in Faults :
    Answer(rq, "api.r2.bulkDelete", ApiR2BulkDelete(env, ParamsOf(rq), rq, fail), fail, "aa")
OnSrvR2ListBuckets ==
  Idle /\ \E rq \in Arrivals("srv.r2.buckets", R2In("srv")), fail \in Faults :
    Answer(rq, "srv.r2.buckets", SrvR2ListBuckets(env, ParamsOf(rq), rq, fail), fail, "aa")
OnSrvR2ListObjects ==
  Idle /\ \E rq \in Arrivals("srv.r2.list", R2In("srv")), fail \in Faults :
    Answer(rq, "srv.r2.list", SrvR2ListObjects(env, ParamsOf(rq), rq, fail), fail, "aa")
OnSrvR2HeadObject ==
  Idle /\ \E rq \in Arrivals("srv.r2.head", R2In("srv")), fail \in Faults :
    Answer(rq, "srv.r2.head", SrvR2HeadObject(env, ParamsOf(rq), rq, fail), fail, "aa")
OnSrvR2GetObject ==
  Idle /\ \E rq \in Arrivals("srv.r2.get", R2In("srv")), fail \in Faults :
    Answer(rq, "srv.r2.get", SrvR2GetObject(env, ParamsOf(rq), rq, fail), fail, "aa")
OnSrvR2PutObject ==
  Idle /\ \E rq \in Arrivals("srv.r2.put", R2In("srv")), fail \in Faults :
    Answer(rq, "srv.r2.put", SrvR2PutObject(env, ParamsOf(rq), rq, fail), fail, "aa")
OnSrvR2DeleteObject ==
  Idle /\ \E rq \in Arrivals("srv.r2.delete", R2In("srv")), fail \in Faults :
    Answer(rq, "srv.r2.delete", SrvR2DeleteObject(env, ParamsOf(rq), rq, fail), fail, "aa")
OnSrvR2BulkDelete ==
  Idle /\ \E rq \in Arrivals("srv.r2.bulkDelete", R2In("srv")), fail \in Faults :
    Answer(rq, "srv.r2.bulkDelete", SrvR2BulkDelete(env, ParamsOf(rq), rq, fail), fail, "aa")

OnApiD1ListDatabases ==
  Idle /\ \E rq \in Arrivals("api.d1.databases", D1In("api")), fail \in Faults :
    Answer(rq, "api.d1.databases", ApiD1ListDatabases(env, ParamsOf(rq), rq, fail), fail, "aa")
OnApiD1Schema ==
  Idle /\ \E rq \in Arrivals("api.d1.schema", D1In("api")), fail \in Faults :
    Answer(rq, "api.d1.schema", ApiD1Schema(env, ParamsOf(rq), rq, fail), fail, "aa")
OnApiD1TableInfo ==
  Idle /\ \E rq \in Arrivals("api.d1.table", D1In("api")), fail \in Faults :
    Answer(rq, "api.d1.table", ApiD1TableInfo(env, ParamsOf(rq), rq, fail), fail, "aa")
OnApiD1Rows ==
  Idle /\ \E rq \in Arrivals("api.d1.rows", D1In("api")), fail \in Faults :
    Answer(rq, "api.d1.rows", ApiD1Rows(env, ParamsOf(rq), rq, fail), fail, "aa")
OnApiD1Query ==
  Idle /\ \E rq \in Arrivals("api.d1.query", D1In("api")), fail \in Faults :
    Answer(rq, "api.d1.query", ApiD1Query(env, ParamsOf(rq), rq, fail), fail, "aa")
OnApiD1InsertRow ==
  Idle /\ \E rq \in Arrivals("api.d1.insert", D1In("api")), fail \in Faults :
    Answer(rq, "api.d1.insert", ApiD1InsertRow(env, ParamsOf(rq), rq, fail), fail, "aa")
OnApiD1UpdateRow ==
  Idle /\ \E rq \in Arrivals("api.d1.update", D1In("api")), fail \in Faults :
    Answer(rq, "api.d1.update", ApiD1UpdateRow(env, ParamsOf(rq), rq, fail), fail, "aa")
OnApiD1UpdateCell ==
  Idle /\ \E rq \in Arrivals("api.d1.cell", D1In("api")), fail \in Faults :
    Answer(rq, "api.d1.cell", ApiD1UpdateCell(env, ParamsOf(rq), rq, fail), fail, "aa")
OnApiD1DeleteRow ==
  Idle /\ \E rq \in Arrivals("api.d1.delete", D1In("api")), fail \in Faults :
    Answer(rq, "api.d1.delete", ApiD1DeleteRow(env, ParamsOf(rq), rq, fail), fail, "aa")
OnApiD1BulkDelete ==
  Idle /\ \E rq \in Arrivals("api.d1.bulkDelete", D1In("api")), fail \in Faults :
    Answer(rq, "api.d1.bulkDelete", ApiD1BulkDelete(env, ParamsOf(rq), rq, fail), fail, "aa")
OnApiD1BulkUpdate ==
  Idle /\ \E rq \in Arrivals("api.d1.bulkUpdate", D1In("api")), fail \in Faults :
    Answer(rq, "api.d1.bulkUpdate", ApiD1BulkUpdate(env, ParamsOf(rq), rq, fail), fail, "aa")
OnSrvD1ListDatabases ==
  Idle /\ \E rq \in Arrivals("srv.d1.databases", D1In("srv")), fail \in Faults :
    Answer(rq, "srv.d1.databases", SrvD1ListDatabases(env, ParamsOf(rq), rq, fail), fail, "aa")
OnSrvD1Schema ==
  Idle /\ \E rq \in Arrivals("srv.d1.schema", D1In("srv")), fail \in Faults :
    Answer(rq, "srv.d1.schema", SrvD1Schema(env, ParamsOf(rq), rq, fail), fail, "aa")
OnSrvD1TableInfo ==
  Idle /\ \E rq \in Arrivals("srv.d1.table", D1In("srv")), fail \in Faults :
    Answer(rq, "srv.d1.table", SrvD1TableInfo(env, ParamsOf(rq), rq, fail), fail, "aa")
OnSrvD1Rows ==
  Idle /\ \E rq \in Arrivals("srv.d1.rows", D1In("srv")), fail \in Faults :
    Answer(rq, "srv.d1.rows", SrvD1Rows(env, ParamsOf(rq), rq, fail), fail, "aa")
OnSrvD1Query ==
  Idle /\ \E rq \in Arrivals("srv.d1.query", D1In("srv")), fail \in Faults :
    Answer(rq, "srv.d1.query", SrvD1Query(env, ParamsOf(rq), rq, fail), fail, "aa")
OnSrvD1InsertRow ==
  Idle /\ \E rq \in Arrivals("srv.d1.insert", D1In("srv")), fail \in Faults :
    Answer(rq, "srv.d1.insert", SrvD1InsertRow(env, ParamsOf(rq), rq, fail), fail, "aa")
OnSrvD1UpdateRow ==
  Idle /\ \E rq \in Arrivals("srv.d1.update", D1In("srv")), fail \in Faults :
    Answer(rq, "srv.d1.update", SrvD1UpdateRow(env, ParamsOf(rq), rq, fail), fail, "aa")
OnSrvD1DeleteRow ==
  Idle /\ \E rq \in Arrivals("srv.d1.delete", D1In("srv")), fail \in Faults :
    Answer(rq, "srv.d1.delete", SrvD1DeleteRow(env, ParamsOf(rq), rq, fail), fail, "aa")
OnSrvD1NoRoute ==
  Idle /\ \E rq \in Arrivals("none", D1In("srv")) :
    Answer(rq, "none", NotFound(env), 0, "aa")

OnApiQueuesList ==
  Idle /\ \E rq \in Arrivals("api.queues.list", QueueRequests), fail \in Faults :
    Answer(rq, "api.queues.list", ApiQueuesList(env, ParamsOf(rq), rq, fail), fail, "aa")
OnApiQueuesSend ==
  Idle /\ \E rq \in Arrivals("api.queues.send", QueueRequests), fail \in Faults :
    Answer(rq, "api.queues.send", ApiQueuesSend(env, ParamsOf(rq), rq, fail), fail, "aa")
OnApiQueuesSendBatch ==
  Idle /\ \E rq \in Arrivals("api.queues.sendBatch", QueueRequests), fail \in Faults :
    Answer(rq, "api.queues.sendBatch", ApiQueuesSendBatch(env, ParamsOf(rq), rq, fail), fail, "aa")
OnApiLogsList ==
  Idle /\ \E rq \in Arrivals("api.logs.list", LogRequests), fail \in Faults :
    Answer(rq, "api.logs.list", ApiLogsList(env, ParamsOf(rq), rq, fail), fail, "aa")
OnApiLogsClear ==
  Idle /\ \E rq \in Arrivals("api.logs.clear", LogRequests), fail \in Faults :
    Answer(rq, "api.logs.clear", ApiLogsClear(env, ParamsOf(rq), rq, fail), fail, "aa")
OnApiLogsStream ==
  Idle /\ \E rq \in Arrivals("api.logs.stream", LogRequests), fail \in Faults :
    Answer(rq, "api.logs.stream", ApiLogsStream(env, ParamsOf(rq), rq, fail), fail, "aa")
OnSrvDoList ==
  Idle /\ \E rq \in Arrivals("srv.do.list", DoRequests), fail \in Faults :
    Answer(rq, "srv.do.list", SrvDoList(env, ParamsOf(rq), rq, fail), fail, "aa")
OnSrvDoGetId ==
  Idle /\ \E rq \in Arrivals("srv.do.id", DoRequests), fail \in Faults, fresh \in DoIds :
    Answer(rq, "srv.do.id", SrvDoGetId(env, ParamsOf(rq), rq, fail, fresh), fail, fresh)
OnSrvDoFetch ==
  Idle /\ \E rq \in Arrivals("srv.do.fetch", DoRequests), fail \in Faults :
    Answer(rq, "srv.do.fetch", SrvDoFetch(env, ParamsOf(rq), rq, fail), fail, "aa")

KvNext ==
  \/ OnApiKvListNamespaces \/ OnApiKvListKeys \/ OnApiKvGetKey \/ OnApiKvPutKey
  \/ OnApiKvDeleteKey \/ OnApiKvBulkDelete
  \/ OnSrvKvListNamespaces \/ OnSrvKvListKeys \/ OnSrvKvGetKey \/ OnSrvKvPutKey
  \/ OnSrvKvDeleteKey \/ OnSrvKvBulkDelete \/ OnKvNoRoute

R2Next ==
  \/ OnApiR2ListBuckets \/ OnApiR2ListObjects \/ OnApiR2HeadObject \/ OnApiR2GetObject
  \/ OnApiR2PutObject \/ OnApiR2DeleteObject \/ OnApiR2BulkDelete
  \/ OnSrvR2ListBuckets \/ OnSrvR2ListObjects \/ OnSrvR2HeadObject \/ OnSrvR2GetObject
  \/ OnSrvR2PutObject \/ OnSrvR2DeleteObject \/ OnSrvR2BulkDelete

D1Next ==
  \/ OnApiD1ListDatabases \/ OnApiD1Schema \/ OnApiD1TableInfo \/ OnApiD1Rows
  \/ OnApiD1Query \/ OnApiD1InsertRow \/ OnApiD1UpdateRow \/ OnApiD1UpdateCell
  \/ OnApiD1DeleteRow \/ OnApiD1BulkDelete \/ OnApiD1BulkUpdate
  \/ OnSrvD1ListDatabases \/ OnSrvD1Schema \/ OnSrvD1TableInfo \/ OnSrvD1Rows
  \/ OnSrvD1Query \/ OnSrvD1InsertRow \/ OnSrvD1UpdateRow \/ OnSrvD1DeleteRow
  \/ OnSrvD1NoRoute

OtherNext ==
  \/ OnApiQueuesList \/ OnApiQueuesSend \/ OnApiQueuesSendBatch
  \/ OnApiLogsList \/ OnApiLogsClear \/ OnApiLogsStream
  \/ OnSrvDoList \/ OnSrvDoGetId \/ OnSrvDoFetch

-----------------------------------------------------------------------------
(* Two runs of the application.  The run of the variables above and the    *)
(* run of `twin` handle requests of their own; a probe hands one request   *)
(* to both when their bindings hold the same data.                         *)

NoTwin == [env |-> EmptyEnv, resp |-> Null, calls |-> <<>>, fail |-> 0, probed |-> FALSE]

\* the other run handles a request of its own
OtherRunServes ==
  /\ Idle
  /\ \E rq \in KvIn("api"), fail \in Faults :
       LET out == Dispatch(twin.env, rq, fail, "aa") IN
       /\ FaultTaken(out, fail)
       /\ out.env # twin.env
       /\ twin' = [twin EXCEPT !.env = out.env]
  /\ UNCHANGED <<serveVars, scope, cli, tui, tail, cell, form>>

\* the same request is handed to both runs, whose bindings hold the same
\* data; each run has its own failures and its own fresh identifiers
Probe(rq, f1, f2, fresh1, fresh2) ==
  LET out1 == Dispatch(env, rq, f1, fresh1)
      out2 == Dispatch(twin.env, rq, f2, fresh2)
  IN
  /\ FaultTaken(out1, f1) /\ FaultTaken(out2, f2)
  /\ env' = out1.env
  /\ req' = Some(rq)
  /\ handler' = HandlerOf(rq)
  /\ resp' = Some(out1.resp)
  /\ calls' = out1.calls
  /\ fault' = [fail |-> f1, fresh |-> fresh1]
  /\ last' = LastAfter(HandlerOf(rq), rq, env, out1)
  /\ twin' = [env |-> out2.env, resp |-> Some(out2.resp), calls |-> out2.calls,
              fail |-> f2, probed |-> TRUE]
  /\ UNCHANGED <<scope, cli, tui, tail, cell, form>>

SameData == Idle /\ twin.env = env

ProbeKv ==
  SameData /\ \E rq \in KvIn("api"), f1 \in Faults, f2 \in Faults :
    Probe(rq, f1, f2, "aa", "aa")

ProbeDo ==
  SameData /\ \E rq \in DoRequests, f1 \in Faults, f2 \in Faults, fresh1 \in DoIds, fresh2 \in DoIds :
    Probe(rq, f1, f2, fresh1, fresh2)

KvApiNext ==
  \/ OnApiKvListNamespaces \/ OnApiKvListKeys \/ OnApiKvGetKey \/ OnApiKvPutKey
  \/ OnApiKvDeleteKey \/ OnApiKvBulkDelete

RunsNext == KvApiNext \/ OtherRunServes \/ ProbeKv \/ ProbeDo \/ Finish

-----------------------------------------------------------------------------
(* The command-line entry point.  `cli.out` lists what was printed,       *)
(* `emulator` and `dashboard` follow localflare.start() and               *)
(* startDashboardServer(); the dashboard counts as started when           *)
(* startDashboardServer() has returned, its listen callback runs later.   *)

ConfigPaths == {"./wrangler.toml", "./app/wrangler.toml"}

CliOff ==
  [pc |-> "idle", configPath |-> Null, files |-> {}, installed |-> FALSE,
   emulator |-> "off", dashboard |-> "off", staticPath |-> Null, listening |-> FALSE,
   handlers |-> FALSE, out |-> <<>>, exit |-> Null]

\* const config = configPath ?? './wrangler.toml'
ConfigOf(c) == IF IsNull(c.configPath) THEN "./wrangler.toml" ELSE Get(c.configPath)

\* getDashboardPath(): the dist folder of the dashboard package, if installed
getDashboardPath(c) == IF c.installed THEN Some("dashboard/dist") ELSE Null

\* localflare.start() called without await
EmulatorNotAwaited(c) == TRUE

\* `await localflare.start()` has returned
EmulatorAwaited(c) == c.emulator = "running"

\* the command is invoked: its argument, and the machine it runs on
CliInvoke ==
  /\ cli.pc = "idle"
  /\ \E arg \in {Null} \cup {Some(x) : x \in ConfigPaths}, files \in SUBSET ConfigPaths,
        installed \in BOOLEAN :
       cli' = [cli EXCEPT !.pc = "check", !.configPath = arg, !.files = files,
                          !.installed = installed, !.out = <<"banner">>]
  /\ UNCHANGED <<serveVars, scope, twin, tui, tail, cell, form>>

\* if (!existsSync(resolvedConfig)) { ...; process.exit(1) }
CliCheckConfig ==
  /\ cli.pc = "check"
  /\ cli' = IF ConfigOf(cli) \notin cli.files
            THEN [cli EXCEPT !.pc = "exited", !.out = @ \o <<"not found">>, !.exit = Some(1)]
            ELSE [cli EXCEPT !.pc = "start", !.out = @ \o <<"config">>]
  /\ UNCHANGED <<serveVars, scope, twin, tui, tail, cell, form>>

\* new LocalFlare(...); localflare.start() is called
CliStartEmulator ==
  /\ cli.pc = "start"
  /\ cli' = [cli EXCEPT !.pc = "awaitEmulator", !.emulator = "starting"]
  /\ UNCHANGED <<serveVars, scope, twin, tui, tail, cell, form>>

EmulatorStarts ==
  /\ cli.emulator = "starting"
  /\ cli' = [cli EXCEPT !.emulator = "running"]
  /\ UNCHANGED <<serveVars, scope, twin, tui, tail, cell, form>>

EmulatorFails ==
  /\ cli.emulator = "starting"
  /\ cli' = [cli EXCEPT !.emulator = "failed"]
  /\ UNCHANGED <<serveVars, scope, twin, tui, tail, cell, form>>

\* startDashboardServer({localflare, port, staticPath}) is called
CliStartDashboard ==
  /\ cli.pc = "awaitEmulator"
  /\ EmulatorAwaited(cli)
  /\ cli' = [cli EXCEPT !.pc = "awaitDashboard", !.dashboard = "starting",
                        !.staticPath = getDashboardPath(cli)]
  /\ UNCHANGED <<serveVars, scope, twin, tui, tail, cell, form>>

\* startDashboardServer: the app is created, serve() is called, the promise resolves
DashboardStarts ==
  /\ cli.dashboard = "starting"
  /\ cli' = [cli EXCEPT !.dashboard = "started"]
  /\ UNCHANGED <<serveVars, scope, twin, tui, tail, cell, form>>

\* startDashboardServer throws (the import of serve-static, or serve() itself)
DashboardFails ==
  /\ cli.dashboard = "starting"
  /\ cli' = [cli EXCEPT !.dashboard = "failed"]
  /\ UNCHANGED <<serveVars, scope, twin, tui, tail, cell, form>>

\* the listen callback of serve(): "Dashboard running at ..."
DashboardListens ==
  /\ cli.dashboard = "started" /\ ~cli.listening /\ IsNull(cli.exit)
  /\ cli' = [cli EXCEPT !.listening = TRUE, !.out = @ \o <<"dashboard listening">>]
  /\ UNCHANGED <<serveVars, scope, twin, tui, tail, cell, form>>

\* the server cannot listen (the port is taken): its error event is not
\* handled and ends the process
DashboardListenFails ==
  /\ cli.dashboard = "started" /\ ~cli.listening /\ IsNull(cli.exit)
  /\ cli' = [cli EXCEPT !.pc = "exited", !.dashboard = "failed", !.exit = Some(1)]
  /\ UNCHANGED <<serveVars, scope, twin, tui, tail, cell, form>>

\* the messages after both awaits, then the shutdown handlers are registered
CliAnnounce ==
  /\ cli.pc = "awaitDashboard" /\ cli.dashboard = "started"
  /\ cli' = [cli EXCEPT !.pc = "serving", !.out = @ \o <<"running">>, !.handlers = TRUE]
  /\ UNCHANGED <<serveVars, scope, twin, tui, tail, cell, form>>

\* catch (error): "Failed to start LocalFlare", process.exit(1)
CliCatch ==
  /\ \/ cli.pc = "awaitEmulator" /\ cli.emulator = "failed"
     \/ cli.pc = "awaitDashboard" /\ cli.dashboard = "failed"
  /\ cli' = [cli EXCEPT !.pc = "exited", !.out = @ \o <<"failed">>, !.exit = Some(1)]
  /\ UNCHANGED <<serveVars, scope, twin, tui, tail, cell, form>>

\* SIGINT or SIGTERM: shutdown() stops the emulator and exits with 0
CliShutdown ==
  /\ cli.pc = "serving" /\ cli.handlers
  /\ cli' = [cli EXCEPT !.pc = "exited", !.out = @ \o <<"shutting down">>,
                        !.emulator = "stopped", !.exit = Some(0)]
  /\ UNCHANGED <<serveVars, scope, twin, tui, tail, cell, form>>

CliNext ==
  \/ CliInvoke \/ CliCheckConfig \/ CliStartEmulator \/ EmulatorStarts \/ EmulatorFails
  \/ CliStartDashboard \/ DashboardStarts \/ DashboardFails \/ DashboardListens
  \/ DashboardListenFails
  \/ CliAnnounce \/ CliCatch \/ CliShutdown

-----------------------------------------------------------------------------
(* The terminal UI.  A line of output is the sequence of its pieces, so   *)
(* that includes() is membership of a piece; time stamps are left out.    *)

MaxLogs == 3

Lines ==
  { <<>>, <<" ">>, <<"hello">>, <<"GET", "/__localflare/">>,
    <<"/__localflare/", "Reloading local server">>, <<"env.USER_WORKER">>,
    <<"Binding", "Resource", "Mode">>, <<"Binding">>, <<"env.DB (", "local">> }

Outputs == {<<l>> : l \in Lines} \cup {<<l, m>> : l \in {<<"hello">>, <<>>}, m \in Lines}

Includes(line, piece) == piece \in Range(line)

\* line.trim() is empty
Blank(line) == \A i \in 1..Len(line) : line[i] = " "

\* parseLogLine: the category of a line, Null for a blank one
parseLogLine(line) ==
  IF Blank(line) THEN Null
  ELSE IF Includes(line, "/__localflare/") THEN Some("localflare")
  ELSE IF \/ Includes(line, "localflare-api has access")
          \/ Includes(line, "env.LOCALFLARE_MANIFEST")
          \/ Includes(line, "env.USER_WORKER")
          \/ Includes(line, "Reloading local server")
          \/ Includes(line, "Binding") /\ Includes(line, "Resource") /\ Includes(line, "Mode")
       THEN Some("system")
  ELSE IF Includes(line, "env.DB (") /\ Includes(line, "local") THEN Some("system")
  ELSE Some("user")

\* parseLogs: split at the line ends, parse each, drop the nulls
Parsed(log) == ~IsNull(log.category)

parseLogs(output) ==
  SelectSeq([i \in 1..Len(output) |->
               [category |-> parseLogLine(output[i]), content |-> output[i]]],
            Parsed)

\* lastKey: the key handled by the last step of the UI, "" when it was no key
TuiOff ==
  [mounted |-> FALSE, started |-> FALSE, userLogs |-> <<>>, localflareLogs |-> <<>>,
   showLocalflare |-> FALSE, logIdCounter |-> 0, exits |-> 0, lastKey |-> ""]

RECURSIVE AddLogs(_, _)
\* the loop of addOutput over the parsed logs
AddLogs(t, parsed) ==
  IF parsed = <<>> THEN t
  ELSE LET log == Head(parsed)
           entry == [id |-> t.logIdCounter + 1, content |-> log.content]
           counted == [t EXCEPT !.logIdCounter = @ + 1]
           pushed ==
             IF Get(log.category) = "user"
             THEN [counted EXCEPT !.userLogs = Append(@, entry)]
             ELSE IF Get(log.category) = "localflare"
             THEN [counted EXCEPT !.localflareLogs = Append(@, entry)]
             ELSE counted
       IN AddLogs(pushed, Tail(parsed))

\* the footer: "<n> app logs | <m> api logs"
FooterCounts(t) == [app |-> Len(t.userLogs), api |-> Len(t.localflareLogs)]

\* startTui(options): fresh lists, the component is rendered
TuiStart ==
  /\ ~tui.mounted /\ tui.exits = 0
  /\ tui' = [tui EXCEPT !.mounted = TRUE, !.started = FALSE, !.userLogs = <<>>,
                        !.localflareLogs = <<>>, !.showLocalflare = FALSE, !.lastKey = ""]
  /\ UNCHANGED <<serveVars, scope, twin, cli, tail, cell, form>>

\* setStarted(started)
TuiSetStarted ==
  /\ tui.mounted
  /\ \E started \in BOOLEAN : started # tui.started /\ tui' = [tui EXCEPT !.started = started, !.lastKey = ""]
  /\ UNCHANGED <<serveVars, scope, twin, cli, tail, cell, form>>

\* addOutput(output)
TuiAddOutput ==
  /\ tui.mounted
  /\ \E output \in Outputs :
       /\ tui.logIdCounter + Len(parseLogs(output)) <= MaxLogs
       /\ tui' = [AddLogs(tui, parseLogs(output)) EXCEPT !.lastKey = ""]
  /\ UNCHANGED <<serveVars, scope, twin, cli, tail, cell, form>>

Keys == {"q", "ctrl-c", "l", "c", "x"}

\* useInput((input, key) => ...)
TuiKey ==
  /\ tui.mounted
  /\ \E k \in Keys :
       tui' = IF k \in {"q", "ctrl-c"}
              THEN [tui EXCEPT !.lastKey = k, !.exits = @ + 1, !.mounted = FALSE]
              ELSE IF k = "l"
              THEN [tui EXCEPT !.lastKey = k, !.showLocalflare = ~@]
              ELSE [tui EXCEPT !.lastKey = k]
  /\ UNCHANGED <<serveVars, scope, twin, cli, tail, cell, form>>

TuiNext == TuiStart \/ TuiSetStarted \/ TuiAddOutput \/ TuiKey

-----------------------------------------------------------------------------
(* The log panel of the dashboard (TailLogs).  `sources` lists every       *)
(* EventSource the panel created, with what made connect() run; `current`  *)
(* is eventSourceRef.current; `timers` counts the pending                  *)
(* setTimeout(connect, 2000).                                              *)

MaxConnects == 4
MaxErrors == 3

TailOff ==
  [phase |-> "unmounted", isPaused |-> FALSE, current |-> 0, sources |-> <<>>,
   timers |-> 0, errors |-> 0]

\* connect(): close the current EventSource, open a new one and remember it
Connect(t, cause) ==
  LET closed == IF t.current = 0 THEN t.sources
                ELSE [t.sources EXCEPT ![t.current].state = "closed"]
  IN [t EXCEPT !.sources = Append(closed, [state |-> "open", cause |-> cause]),
               !.current = Len(t.sources) + 1]

\* the cleanup of the effect: eventSourceRef.current?.close()
Cleanup(t) ==
  IF t.current = 0 THEN t ELSE [t EXCEPT !.sources[t.current].state = "closed"]

\* an error handler that schedules nothing
OnErrorIgnored(t, i) ==
  [t EXCEPT !.sources[i].state = "retrying", !.errors = @ + 1]

\* eventSource.onerror = () => { setTimeout(connect, 2000) }
OnError(t, i) ==
  [t EXCEPT !.sources[i].state = "retrying", !.timers = @ + 1, !.errors = @ + 1]

CanConnect == Len(tail.sources) < MaxConnects

\* the panel is shown: the effect runs connect()
TailMount ==
  /\ tail.phase = "unmounted" /\ CanConnect
  /\ tail' = Connect([tail EXCEPT !.phase = "mounted"], "mount")
  /\ UNCHANGED <<serveVars, scope, twin, cli, tui, cell, form>>

\* the user toggles pause: connect changes, the effect is cleaned up and run again
TailTogglePause ==
  /\ tail.phase = "mounted" /\ CanConnect
  /\ tail' = Connect(Cleanup([tail EXCEPT !.isPaused = ~@]), "pause")
  /\ UNCHANGED <<serveVars, scope, twin, cli, tui, cell, form>>

\* the user leaves the panel: the effect is cleaned up, pending timers stay
TailUnmount ==
  /\ tail.phase = "mounted"
  /\ tail' = [Cleanup(tail) EXCEPT !.phase = "left"]
  /\ UNCHANGED <<serveVars, scope, twin, cli, tui, cell, form>>

\* the worker answered GET /logs/stream with a stream that is already closed:
\* the EventSource that asked reports an error
TailStreamEnds ==
  /\ handler = "api.logs.stream" /\ Get(resp).body.closed
  /\ tail.errors < MaxErrors
  /\ \E i \in 1..Len(tail.sources) :
       /\ tail.sources[i].state = "open"
       /\ tail' = OnError(tail, i)
  /\ UNCHANGED <<serveVars, scope, twin, cli, tui, cell, form>>

\* the connection of an EventSource breaks
TailNetworkError ==
  /\ tail.errors < MaxErrors
  /\ \E i \in 1..Len(tail.sources) :
       /\ tail.sources[i].state = "open"
       /\ tail' = OnError(tail, i)
  /\ UNCHANGED <<serveVars, scope, twin, cli, tui, cell, form>>

\* the browser reconnects an EventSource that reported an error and was not closed
TailBrowserReconnects ==
  /\ \E i \in 1..Len(tail.sources) :
       /\ tail.sources[i].state = "retrying"
       /\ tail' = [tail EXCEPT !.sources[i].state = "open"]
  /\ UNCHANGED <<serveVars, scope, twin, cli, tui, cell, form>>

\* a pending setTimeout(connect, 2000) fires; nothing ever clears it
TailTimerFires ==
  /\ tail.timers > 0 /\ CanConnect
  /\ tail' = Connect([tail EXCEPT !.timers = @ - 1], "timer")
  /\ UNCHANGED <<serveVars, scope, twin, cli, tui, cell, form>>

TailNext ==
  \/ TailMount \/ TailTogglePause \/ TailUnmount \/ TailStreamEnds \/ TailNetworkError
  \/ TailBrowserReconnects \/ TailTimerFires
  \/ OnApiLogsList \/ OnApiLogsClear \/ OnApiLogsStream \/ Finish

-----------------------------------------------------------------------------
(* Texts and numbers of the dashboard's forms.  A text is the sequence of   *)
(* its characters; a number is held as the text String(number) prints, so   *)
(* two numbers are the same value exactly when their texts are equal.       *)

DigitChars == {"0", "1", "2", "3", "4", "5", "6", "7", "8", "9"}

\* the longest prefix of the text that is made of digits
RECURSIVE DigitsPrefix(_)
DigitsPrefix(t) ==
  IF t = <<>> \/ Head(t) \notin DigitChars THEN <<>>
  ELSE <<Head(t)>> \o DigitsPrefix(Tail(t))

\* the digits without leading zeros: the integer they denote
RECURSIVE StripZeros(_)
StripZeros(d) ==
  IF Len(d) > 1 /\ Head(d) = "0" THEN StripZeros(Tail(d)) ELSE d

\* the digits of a fraction without trailing zeros
RECURSIVE StripTrailingZeros(_)
StripTrailingZeros(f) ==
  IF f # <<>> /\ f[Len(f)] = "0" THEN StripTrailingZeros(SubSeq(f, 1, Len(f) - 1)) ELSE f

\* the text without leading white space
RECURSIVE TrimStart(_)
TrimStart(t) == IF t # <<>> /\ Head(t) = " " THEN TrimStart(Tail(t)) ELSE t

\* String.prototype.trim
RECURSIVE TrimEnd(_)
TrimEnd(t) == IF t # <<>> /\ t[Len(t)] = " " THEN TrimEnd(SubSeq(t, 1, Len(t) - 1)) ELSE t

Trim(t) == TrimEnd(TrimStart(t))

Signed(t) == t # <<>> /\ Head(t) \in {"-", "+"}
Unsigned(t) == IF Signed(t) THEN Tail(t) ELSE t

\* the text of the number with the sign and the digits; -0 prints as 0
NumberText(negative, int, frac) ==
  (IF negative /\ (int # <<"0">> \/ frac # <<>>) THEN <<"-">> ELSE <<>>)
  \o int \o (IF frac = <<>> THEN <<>> ELSE <<".">> \o frac)

\* parseInt(text, 10): Null stands for NaN
parseInt(text) ==
  LET s == TrimStart(text)
      digits == DigitsPrefix(Unsigned(s))
  IN IF digits = <<>> THEN Null
     ELSE Some(NumberText(Signed(s) /\ Head(s) = "-", StripZeros(digits), <<>>))

\* parseFloat(text) for texts without an exponent: Null stands for NaN
parseFloat(text) ==
  LET s == TrimStart(text)
      body == Unsigned(s)
      int == DigitsPrefix(body)
      rest == SubSeq(body, Len(int) + 1, Len(body))
      frac == IF rest # <<>> /\ Head(rest) = "." THEN DigitsPrefix(Tail(rest)) ELSE <<>>
  IN IF int = <<>> /\ frac = <<>> THEN Null
     ELSE Some(NumberText(Signed(s) /\ Head(s) = "-",
                          IF int = <<>> THEN <<"0">> ELSE StripZeros(int),
                          StripTrailingZeros(frac)))

\* the cell values: string | number | boolean | null | Uint8Array
NullValue == [kind |-> "null", text |-> <<>>]
NumberValue(text) == [kind |-> "number", text |-> text]
StringValue(text) == [kind |-> "string", text |-> text]
BooleanValue(text) == [kind |-> "boolean", text |-> text]
BlobValue(length) == [kind |-> "blob", text |-> length]

True == <<"t", "r", "u", "e">>
False == <<"f", "a", "l", "s", "e">>

\* the letters
Lowers ==
  <<"a", "b", "c", "d", "e", "f", "g", "h", "i", "j", "k", "l", "m",
    "n", "o", "p", "q", "r", "s", "t", "u", "v", "w", "x", "y", "z">>
Uppers ==
  <<"A", "B", "C", "D", "E", "F", "G", "H", "I", "J", "K", "L", "M",
    "N", "O", "P", "Q", "R", "S", "T", "U", "V", "W", "X", "Y", "Z">>

\* String.prototype.toLowerCase and toUpperCase
LowerChar(c) ==
  IF \E i \in DOMAIN Uppers : Uppers[i] = c
  THEN Lowers[CHOOSE i \in DOMAIN Uppers : Uppers[i] = c] ELSE c

UpperChar(c) ==
  IF \E i \in DOMAIN Lowers : Lowers[i] = c
  THEN Uppers[CHOOSE i \in DOMAIN Lowers : Lowers[i] = c] ELSE c

ToLowerCase(t) == [i \in DOMAIN t |-> LowerChar(t[i])]
ToUpperCase(t) == [i \in DOMAIN t |-> UpperChar(t[i])]

\* the column types of the model and type.toUpperCase()
ColumnTypes == {"INTEGER", "integer", "TEXT", "REAL", "BOOLEAN", "BLOB", "BIGINT"}

UpperType(type) == IF type = "integer" THEN "INTEGER" ELSE type

\* upperType.includes('INT')
IncludesInt(upperType) == upperType \in {"INTEGER", "BIGINT"}

\* upperType.includes('REAL') || .includes('FLOAT') || .includes('DOUBLE')
IncludesReal(upperType) == upperType = "REAL"

-----------------------------------------------------------------------------
(* The inline editable cell of the data table *)

\* formatDisplayValue(value, type)
formatDisplayValue(value, type) ==
  CASE value.kind = "null" -> <<>>
    [] value.kind = "boolean" -> value.text
    [] value.kind = "blob" ->
         <<"[", "B", "L", "O", "B", ":", " ">> \o value.text \o <<" ", "b", "y", "t", "e", "s", "]">>
    [] OTHER -> value.text

\* parseInputValue(input, type)
parseInputValue(input, type) ==
  LET upperType == UpperType(type) IN
  IF input = <<>> THEN NullValue
  ELSE IF IncludesInt(upperType)
  THEN (IF IsNull(parseInt(input)) THEN NullValue ELSE NumberValue(Get(parseInt(input))))
  ELSE IF IncludesReal(upperType)
  THEN (IF IsNull(parseFloat(input)) THEN NullValue ELSE NumberValue(Get(parseFloat(input))))
  ELSE IF upperType = "BOOLEAN"
  THEN (IF ToLowerCase(input) \in {True, <<"1">>} THEN NumberValue(<<"1">>)
        ELSE IF ToLowerCase(input) \in {False, <<"0">>} THEN NumberValue(<<"0">>)
        ELSE NullValue)
  ELSE StringValue(input)

\* the values a cell is given
CellValues ==
  { NullValue, NumberValue(<<"7">>), NumberValue(<<"1", ".", "5">>), NumberValue(<<"-", "3">>),
    StringValue(<<>>), StringValue(<<"a">>), StringValue(<<"0", "7">>),
    BooleanValue(True), BooleanValue(False), BlobValue(<<"2">>) }

\* the texts a user types
CellTexts == {<<>>, <<"8">>, <<"7">>, <<"a">>, <<"T", "R", "U", "E">>}

\* the state is what the hooks hold, `shown` is what the last render put
\* on the screen and closed its callbacks over; `saved` lists the values
\* handed to onSave since the cell last entered editing mode and `ended`
\* names the event that first ended that editing session
CellOff ==
  [mounted |-> FALSE, value |-> NullValue, type |-> "TEXT", editable |-> TRUE,
   isPrimaryKey |-> FALSE, isEditing |-> FALSE, editValue |-> <<>>,
   shown |-> [isEditing |-> FALSE, editValue |-> <<>>], focused |-> FALSE,
   saved |-> <<>>, ended |-> "", lastEvent |-> ""]

\* a cell that only looks at the editable flag
canEditFlagOnly(c) == c.editable

\* isAutoIncrement and canEdit
isAutoIncrement(c) == c.isPrimaryKey /\ UpperType(c.type) = "INTEGER"
canEdit(c) == c.editable /\ ~isAutoIncrement(c) /\ c.value.kind # "blob"

\* nothing waits to be rendered
CellRendered(c) == c.shown = [isEditing |-> c.isEditing, editValue |-> c.editValue]

\* startEditing
startEditing(c) ==
  IF ~canEdit(c) THEN c
  ELSE [c EXCEPT !.editValue = formatDisplayValue(c.value, c.type), !.isEditing = TRUE,
                 !.saved = <<>>, !.ended = ""]

\* the comparison `parsedValue !== value` of saveChanges
Changed(parsedValue, value) == parsedValue # value

\* saveChanges, as the callback of the last render: it reads the edit
\* text and the value of that render
saveChanges(c) ==
  LET parsedValue == parseInputValue(c.shown.editValue, c.type) IN
  [c EXCEPT !.saved = IF Changed(parsedValue, c.value) THEN Append(@, parsedValue) ELSE @,
            !.isEditing = FALSE]

\* cancelEditing
cancelEditing(c) == [c EXCEPT !.isEditing = FALSE, !.editValue = <<>>]

CellFrame == UNCHANGED <<serveVars, scope, twin, cli, tui, tail, form>>

\* the table renders a cell
CellMount ==
  /\ ~cell.mounted
  /\ \E value \in CellValues, type \in ColumnTypes, editable \in BOOLEAN, isPrimaryKey \in BOOLEAN :
       cell' = [CellOff EXCEPT !.mounted = TRUE, !.value = value, !.type = type,
                               !.editable = editable, !.isPrimaryKey = isPrimaryKey,
                               !.lastEvent = "mount"]
  /\ CellFrame

\* the table removes the cell
CellUnmount ==
  /\ cell.mounted /\ ~cell.shown.isEditing /\ CellRendered(cell)
  /\ cell' = CellOff
  /\ CellFrame

\* onDoubleClick={canEdit ? startEditing : undefined}
CellDoubleClick ==
  /\ cell.mounted /\ CellRendered(cell) /\ ~cell.shown.isEditing
  /\ cell' = [(IF canEdit(cell) THEN startEditing(cell) ELSE cell) EXCEPT !.lastEvent = "dblclick"]
  /\ CellFrame

\* React renders the state; the effect focuses the input that appears
CellRender ==
  /\ cell.mounted /\ ~CellRendered(cell)
  /\ cell' = [cell EXCEPT !.shown = [isEditing |-> cell.isEditing, editValue |-> cell.editValue],
                          !.focused = IF cell.isEditing /\ ~cell.shown.isEditing THEN TRUE
                                      ELSE IF ~cell.isEditing THEN FALSE ELSE @,
                          !.lastEvent = "render"]
  /\ CellFrame

\* onChange: the user replaces the text of the input
CellChange ==
  /\ cell.shown.isEditing /\ CellRendered(cell) /\ cell.focused
  /\ \E text \in CellTexts :
       /\ text # cell.editValue
       /\ cell' = [cell EXCEPT !.editValue = text, !.lastEvent = "change"]
  /\ CellFrame

\* handleKeyDown with the key Enter
CellEnter ==
  /\ cell.shown.isEditing /\ CellRendered(cell) /\ cell.focused
  /\ cell' = [saveChanges(cell) EXCEPT !.ended = "enter", !.lastEvent = "enter"]
  /\ CellFrame

\* handleKeyDown with the key Escape
CellEscape ==
  /\ cell.shown.isEditing /\ CellRendered(cell) /\ cell.focused
  /\ cell' = [cancelEditing(cell) EXCEPT !.ended = "escape", !.lastEvent = "escape"]
  /\ CellFrame

\* onBlur={saveChanges}: the input loses the focus while it is on the
\* screen, which it still is between a key handler and the next render
CellBlur ==
  /\ cell.shown.isEditing /\ cell.focused
  /\ cell' = [saveChanges(cell) EXCEPT !.focused = FALSE,
                !.ended = IF @ = "" THEN "blur" ELSE @,
                !.lastEvent = IF CellRendered(cell) THEN "blur" ELSE "late blur"]
  /\ CellFrame

\* the table passes the value that was saved back to the cell
CellRefetch ==
  /\ cell.mounted /\ CellRendered(cell) /\ ~cell.shown.isEditing
  /\ cell.saved # <<>> /\ cell.value # cell.saved[Len(cell.saved)]
  /\ cell' = [cell EXCEPT !.value = cell.saved[Len(cell.saved)], !.lastEvent = "refetch"]
  /\ CellFrame

CellNext ==
  \/ CellMount \/ CellUnmount \/ CellDoubleClick \/ CellRender \/ CellChange
  \/ CellEnter \/ CellEscape \/ CellBlur \/ CellRefetch

-----------------------------------------------------------------------------
(* The row editor dialog *)

UndefinedValue == [kind |-> "undefined", text |-> <<>>]

\* marks a column that a saved object does not hold
Omitted == [kind |-> "omitted", text |-> <<>>]

\* the text starts with the prefix
StartsWithText(text, prefix) ==
  Len(text) >= Len(prefix) /\ SubSeq(text, 1, Len(prefix)) = prefix

CurrentTimestamp == <<"C", "U", "R", "R", "E", "N", "T", "_", "T", "I", "M", "E", "S", "T", "A", "M", "P">>
CurrentDate == <<"C", "U", "R", "R", "E", "N", "T", "_", "D", "A", "T", "E">>
CurrentTime == <<"C", "U", "R", "R", "E", "N", "T", "_", "T", "I", "M", "E">>

\* the prefixes of the defaults that are left to SQLite
sqlExpressionDefaults ==
  { CurrentTimestamp, CurrentDate, CurrentTime,
    <<"D", "A", "T", "E", "T", "I", "M", "E">>, <<"D", "A", "T", "E">>, <<"T", "I", "M", "E">>,
    <<"S", "T", "R", "F", "T", "I", "M", "E">>, <<"(">> }

\* isSqlExpression(defaultValue): the default is Null or <<text>>
isSqlExpression(defaultValue) ==
  /\ ~IsNull(defaultValue)
  /\ \E expr \in sqlExpressionDefaults :
       StartsWithText(Trim(ToUpperCase(Get(defaultValue))), expr)

\* the text is 'value' or "value"
Quoted(text) ==
  \E q \in {"'", "\""} : text # <<>> /\ Head(text) = q /\ text[Len(text)] = q

\* a pre-fill that copies the text of the default
parseDefaultText(defaultValue, columnType) ==
  IF IsNull(defaultValue) THEN NullValue ELSE StringValue(Trim(Get(defaultValue)))

\* parseDefaultValue(defaultValue, columnType)
parseDefaultValue(defaultValue, columnType) ==
  IF IsNull(defaultValue) THEN NullValue
  ELSE
    LET strValue == Trim(Get(defaultValue))
        upperType == UpperType(columnType)
    IN
    IF isSqlExpression(defaultValue) THEN NullValue
    ELSE IF Quoted(strValue) THEN StringValue(SubSeq(strValue, 2, Len(strValue) - 1))
    ELSE IF ToUpperCase(strValue) = <<"N", "U", "L", "L">> THEN NullValue
    ELSE IF IncludesInt(upperType)
    THEN (IF IsNull(parseInt(strValue)) THEN StringValue(strValue)
          ELSE NumberValue(Get(parseInt(strValue))))
    ELSE IF IncludesReal(upperType)
    THEN (IF IsNull(parseFloat(strValue)) THEN StringValue(strValue)
          ELSE NumberValue(Get(parseFloat(strValue))))
    ELSE StringValue(strValue)

\* a column of PRAGMA table_info; dflt_value is Null or <<text>>
FormCol(name, type, notnull, dflt_value, pk) ==
  [name |-> name, type |-> type, notnull |-> notnull, dflt_value |-> dflt_value, pk |-> pk]

ColumnNamesOfForm == {"id", "qty", "at"}

IdColumns ==
  { FormCol("id", "INTEGER", 1, Null, 1), FormCol("id", "integer", 0, Null, 1),
    FormCol("id", "TEXT", 1, Null, 1) }

QtyColumns ==
  { FormCol("qty", "INTEGER", 1, Null, 0),
    FormCol("qty", "INTEGER", 0, Null, 0),
    FormCol("qty", "BIGINT", 1, Some(<<"0", "5">>), 0),
    FormCol("qty", "INTEGER", 1, Some(<<"T", "R", "U", "E">>), 0),
    FormCol("qty", "INTEGER", 0, Some(<<"'", "5", "'">>), 0),
    FormCol("qty", "INTEGER", 0, Some(<<"n", "u", "l", "l">>), 0),
    FormCol("qty", "REAL", 1, Some(<<"1", ".", "5", "0">>), 0),
    FormCol("qty", "BOOLEAN", 0, Some(<<"1">>), 0) }

AtColumns ==
  { FormCol("at", "TEXT", 1, Null, 0),
    FormCol("at", "TEXT", 1, Some(CurrentTimestamp), 0),
    FormCol("at", "TEXT", 0, Some(<<" ", "c", "u", "r", "r", "e", "n", "t", "_", "d", "a", "t", "e">>), 0),
    FormCol("at", "TEXT", 1, Some(<<"(", "1", ")">>), 0),
    FormCol("at", "TEXT", 0, Some(<<"\"", "u", "\"">>), 0) }

\* schema.columns in table order; schema.primaryKeys are the names of the
\* columns with pk > 0
Schemas ==
  { [columns |-> <<i, q, a>>, primaryKeys |-> {"id"}] :
      i \in IdColumns, q \in QtyColumns, a \in AtColumns }

ColumnOf(schema, name) ==
  schema.columns[CHOOSE i \in DOMAIN schema.columns : schema.columns[i].name = name]

\* the rows the dialog is opened with in edit mode
Rows ==
  { [id |-> NumberValue(<<"1">>), qty |-> q, at |-> a] :
      q \in {NumberValue(<<"3">>), StringValue(<<"a">>), UndefinedValue},
      a \in {StringValue(<<"u">>)} }

NoErrors == [c \in ColumnNamesOfForm |-> ""]

FormOff ==
  [open |-> FALSE, schema |-> CHOOSE s \in Schemas : TRUE, row |-> Null,
   formData |-> [c \in ColumnNamesOfForm |-> UndefinedValue], errors |-> NoErrors,
   saved |-> Null, lastEvent |-> "", field |-> ""]

isEditing(f) == ~IsNull(f.row)

\* schema.primaryKeys.includes(col.name) && col.type.toUpperCase() === 'INTEGER'
isAutoIncrementCol(schema, col) == col.name \in schema.primaryKeys /\ UpperType(col.type) = "INTEGER"

\* the initial form value of a column in create mode
InitialValue(col) ==
  IF ~IsNull(col.dflt_value) /\ ~isSqlExpression(col.dflt_value)
  THEN parseDefaultValue(col.dflt_value, col.type)
  ELSE IF col.notnull = 0 \/ ~IsNull(col.dflt_value) THEN NullValue
  ELSE StringValue(<<>>)

\* the effect that initializes the form data: a copy of the row in edit
\* mode, the defaults in create mode, and no errors
InitializeForm(f) ==
  [f EXCEPT !.formData = IF isEditing(f)
                         THEN [c \in ColumnNamesOfForm |-> Get(f.row)[c]]
                         ELSE [c \in ColumnNamesOfForm |-> InitialValue(ColumnOf(f.schema, c))],
            !.errors = NoErrors]

\* updateField(columnName, value)
updateField(f, columnName, value) ==
  [f EXCEPT !.formData[columnName] = value, !.errors[columnName] = ""]

Empty(value) == value \in {NullValue, UndefinedValue, StringValue(<<>>)}

\* String(value) of a form value that is not empty
StringOf(value) == value.text

\* typeof value === 'number' && Number.isInteger(value)
IsInteger(value) == value.kind = "number" /\ "." \notin Range(value.text)

\* a validation that checks the required fields only
ErrorOfRequired(f, col) ==
  IF isAutoIncrementCol(f.schema, col) /\ ~isEditing(f) THEN ""
  ELSE IF col.notnull = 1 /\ IsNull(col.dflt_value) /\ Empty(f.formData[col.name])
  THEN "This field is required"
  ELSE ""

\* the error validate records for the column, "" for none
ErrorOf(f, col) ==
  LET value == f.formData[col.name] IN
  IF isAutoIncrementCol(f.schema, col) /\ ~isEditing(f) THEN ""
  ELSE IF ~Empty(value) /\ IncludesInt(UpperType(col.type)) /\ ~IsInteger(value)
          /\ IsNull(parseInt(StringOf(value)))
  THEN "Must be an integer"
  ELSE IF col.notnull = 1 /\ IsNull(col.dflt_value) /\ Empty(value)
  THEN "This field is required"
  ELSE ""

\* validate(): the new error map
validate(f) == [c \in ColumnNamesOfForm |-> ErrorOf(f, ColumnOf(f.schema, c))]

\* a save that hands over every column of the schema
saveDataAll(f) == f.formData

\* the object handleSave hands to onSave
saveData(f) ==
  [c \in ColumnNamesOfForm |->
     LET col == ColumnOf(f.schema, c) IN
     IF isAutoIncrementCol(f.schema, col) /\ ~isEditing(f) THEN Omitted
     ELSE IF ~isEditing(f) /\ ~IsNull(col.dflt_value) /\ isSqlExpression(col.dflt_value)
             /\ Empty(f.formData[c])
     THEN Omitted
     ELSE f.formData[c]]

\* handleSave
handleSave(f) ==
  IF validate(f) # NoErrors THEN [f EXCEPT !.errors = validate(f), !.saved = Null]
  ELSE [f EXCEPT !.errors = validate(f), !.saved = Some(saveData(f))]

\* the input type of a field
inputType(col) ==
  IF IncludesInt(UpperType(col.type)) \/ IncludesReal(UpperType(col.type)) THEN "number"
  ELSE IF UpperType(col.type) = "BOOLEAN" THEN "checkbox"
  ELSE "text"

\* the value handleChange of a field hands to onChange for the text typed
\* (of a checkbox: its text is not empty when it is checked)
handleChange(col, newValue) ==
  IF inputType(col) = "checkbox"
  THEN (IF newValue # <<>> THEN NumberValue(<<"1">>) ELSE NumberValue(<<"0">>))
  ELSE IF newValue = <<>> THEN NullValue
  ELSE IF inputType(col) = "number"
  THEN LET num == IF IncludesInt(UpperType(col.type)) THEN parseInt(newValue) ELSE parseFloat(newValue)
       IN IF IsNull(num) THEN NullValue ELSE NumberValue(Get(num))
  ELSE StringValue(newValue)

\* the texts typed into the fields
FormTexts == {<<>>, <<"1", ".", "5">>, <<"a">>}

\* the field's input is disabled
inputDisabled(f, col) ==
  \/ isAutoIncrementCol(f.schema, col) /\ ~isEditing(f)
  \/ isAutoIncrementCol(f.schema, col) /\
       f.formData[col.name] \in {NullValue, UndefinedValue, StringValue(<<>>), NumberValue(<<"0">>)}

FormFrame == UNCHANGED <<serveVars, scope, twin, cli, tui, tail, cell>>

\* the dialog opens for a new row or for a row of the table
FormOpen ==
  /\ ~form.open
  /\ \E schema \in Schemas, row \in {Null} \cup {Some(r) : r \in Rows} :
       form' = InitializeForm([FormOff EXCEPT !.open = TRUE, !.schema = schema, !.row = row,
                                              !.lastEvent = "open"])
  /\ FormFrame

\* Cancel, or the parent closes the dialog after a save
FormClose ==
  /\ form.open
  /\ form' = FormOff
  /\ FormFrame

\* the user types into a field
FormChange ==
  /\ form.open
  /\ \E c \in ColumnNamesOfForm, text \in FormTexts :
       /\ ~inputDisabled(form, ColumnOf(form.schema, c))
       /\ form' = [updateField(form, c, handleChange(ColumnOf(form.schema, c), text))
                     EXCEPT !.saved = Null, !.lastEvent = "change", !.field = c]
  /\ FormFrame

\* handleNullToggle of a field that is not required
FormNullToggle ==
  /\ form.open
  /\ \E c \in ColumnNamesOfForm :
       LET col == ColumnOf(form.schema, c) IN
       /\ ~(col.notnull = 1 /\ IsNull(col.dflt_value))
       /\ form' = [updateField(form, c, IF form.formData[c] = NullValue
                                        THEN StringValue(<<>>) ELSE NullValue)
                     EXCEPT !.saved = Null, !.lastEvent = "change", !.field = c]
  /\ FormFrame

\* the Save button
FormSave ==
  /\ form.open
  /\ form' = [handleSave(form) EXCEPT !.lastEvent = "save", !.field = ""]
  /\ FormFrame

FormNext == FormOpen \/ FormClose \/ FormChange \/ FormNullToggle \/ FormSave

-----------------------------------------------------------------------------
(* Specifications.  `scope` names the part of the application a            *)
(* specification exercises with its wider set of requests.                 *)

InitWith(s) ==
  /\ env = EmptyEnv /\ req = Null /\ handler = "" /\ resp = Null /\ calls = <<>>
  /\ fault = NoFault /\ scope = s /\ last = NoWrites /\ twin = NoTwin
  /\ cli = CliOff /\ tui = TuiOff /\ tail = TailOff
  /\ cell = CellOff /\ form = FormOff

Init == InitWith("all")

Next == KvNext \/ R2Next \/ D1Next \/ OtherNext \/ Finish

Spec == Init /\ [][Next]_vars

SpecKV == InitWith("kv") /\ [][KvNext \/ Finish]_vars
SpecR2 == InitWith("r2") /\ [][R2Next \/ Finish]_vars
SpecD1 == InitWith("d1") /\ [][D1Next \/ Finish]_vars
SpecRuns == InitWith("runs") /\ [][RunsNext]_vars
\* the steps of the command itself are taken when they can be; the emulator,
\* the server and the signals are not obliged to anything
CliFairness ==
  /\ WF_vars(CliCheckConfig) /\ WF_vars(CliStartEmulator) /\ WF_vars(CliStartDashboard)
  /\ WF_vars(CliAnnounce) /\ WF_vars(CliCatch)

SpecCli == InitWith("cli") /\ [][CliNext]_vars /\ CliFairness
SpecTui == InitWith("tui") /\ [][TuiNext]_vars
SpecTail == InitWith("tail") /\ [][TailNext]_vars

SpecCell == InitWith("cell") /\ [][CellNext]_vars
SpecForm == InitWith("form") /\ [][FormNext]_vars

-----------------------------------------------------------------------------
(* Properties *)

Answered == ~Idle

\* the response in flight was built by a route handler with c.json
HandlerBuilt == Answered /\ handler # "none" /\ Get(resp).type = "json"

\* every call the handler made returned
AllCallsOk == \A i \in DOMAIN calls : calls[i].ok

\* C1 (as amended): every error response a route handler builds has status
\* 400, 404 or 500; 400 and 404 are answered by the handler's own checks, never
\* for a call that threw.
C1_ErrorStatuses ==
  HandlerBuilt /\ Get(resp).status >= 400 =>
    /\ Get(resp).status \in {400, 404, 500}
    /\ Get(resp).status \in {400, 404} => AllCallsOk

\* C1: a handler answered an error that is neither 404 nor 500
C1_Witness == HandlerBuilt /\ Get(resp).status = 400 /\ handler = "api.d1.query"

\* C1 as stated: every error response of a handler has status 404 or 500
C1_Original ==
  HandlerBuilt /\ Get(resp).status >= 400 => Get(resp).status \in {404, 500}

\* a call made while handling the request threw
ACallThrew == Answered /\ ~AllCallsOk

\* the routes that list the bindings of a group (GET / of the group)
Listing ==
  {"api.kv.namespaces", "srv.kv.namespaces", "api.r2.buckets", "srv.r2.buckets",
   "api.d1.databases", "srv.d1.databases", "api.queues.list", "srv.do.list"}

ErrorTexts ==
  {StringOfError(x) : x \in {BindingError, JsonSyntaxError, UnboundError,
                             CompositeKeyError, D1Error, TypeErrorUndefined}}

\* c.json({ error: String(error) }, 500)
CaughtResponse ==
  /\ Get(resp).type = "json" /\ Get(resp).status = 500
  /\ Get(resp).body.error \in ErrorTexts

\* the framework's answer to an exception that left the handler
EscapedResponse ==
  Get(resp) = Text(500, "Internal Server Error")

\* C2 (as amended): when a call made while handling a request throws, every
\* route except the binding-listing routes catches it and answers 500 with a
\* JSON body whose error field is String(error); the binding-listing routes
\* have no try block, the exception leaves the handler and the framework
\* answers 500 with a plain text body.
C2_Caught ==
  ACallThrew => IF handler \in Listing THEN EscapedResponse ELSE CaughtResponse

\* C2: the fetch proxy caught a call that threw
C2_Witness == ACallThrew /\ handler = "srv.do.fetch" /\ CaughtResponse

\* C2 as stated: every call that throws is caught by the handler
C2_Original == ACallThrew => CaughtResponse

\* the calls on a binding among the calls of the request
BindingCalls == {i \in DOMAIN calls : calls[i].kind = "binding"}

\* the keys a bulk-delete request names
KeysNamed == IF IsNull(Get(req).body) THEN 0 ELSE Len(Get(Get(req).body).keys)

\* the most calls on a binding that a handler makes for the request in flight
CallLimit ==
  CASE handler = "api.d1.table" -> 4
    [] handler = "srv.do.fetch" -> 3
    [] handler \in {"api.kv.bulkDelete", "srv.kv.bulkDelete"} -> KeysNamed
    [] OTHER -> 2

\* C3 (as amended): a handler makes at most two calls on a binding for one
\* request, except the table-information route of the D1 worker routes (four
\* queries), the fetch proxy of the Durable Object routes (three calls) and
\* the KV bulk-delete routes (one delete per key of the request).
C3_BindingCalls == Answered => Cardinality(BindingCalls) <= CallLimit

\* C3: the table-information route made its four queries
C3_Witness ==
  Answered /\ handler = "api.d1.table" /\ Cardinality(BindingCalls) = 4 /\ AllCallsOk

\* C3 as stated: no handler makes more than two calls on a binding
C3_Original == Answered => Cardinality(BindingCalls) <= 2

\* the connections that a timer started, with no user action
TimerConnects == {i \in DOMAIN tail.sources : tail.sources[i].cause = "timer"}

Probed == Answered /\ twin.probed

\* the calls of both runs returned the same results: the same calls were
\* made, the same call (if any) failed for the same cause, and a fresh
\* identifier asked for was the same
SameResults == calls = twin.calls /\ fault.fail = twin.fail

Bulk == Answered /\ handler \in {"api.d1.bulkDelete", "api.d1.bulkUpdate"}

BulkTable == ParamsOf(Get(req)).table
BulkKeys == getPrimaryKeys(BulkTable)
BulkRowIds == Get(Get(req).body).rowIds
BulkData == Get(Get(req).body).data

\* a row identifier that names one value for every primary-key column
ValidRowId(pk, rowId) ==
  IF rowId.form = "object"
  THEN \A i \in DOMAIN pk : EntryOf(rowId.obj, pk[i]) \notin {Undefined, Null}
  ELSE IF IsNull(JsonArray(rowId.text)) THEN Len(pk) = 1
  ELSE Len(Get(JsonArray(rowId.text))) = Len(pk)

\* the key values a valid row identifier names, in key order
KeyValues(pk, rowId) ==
  IF rowId.form = "object" THEN [i \in DOMAIN pk |-> EntryOf(rowId.obj, pk[i])]
  ELSE IF IsNull(JsonArray(rowId.text)) THEN <<Some(rowId.text)>>
  ELSE Get(JsonArray(rowId.text))

\* the table has a primary key and the identifiers are valid and not empty
BulkValid ==
  /\ Bulk /\ ~IsNull(getDatabase(ParamsOf(Get(req)).binding))
  /\ Len(BulkKeys) > 0
  /\ ~IsNull(BulkRowIds) /\ Len(Get(BulkRowIds)) > 0
  /\ \A i \in DOMAIN Get(BulkRowIds) : ValidRowId(BulkKeys, Get(BulkRowIds)[i])

\* a bulk update names a column to set that is not a primary-key column
BulkHasData ==
  handler = "api.d1.bulkUpdate" =>
    ~IsNull(BulkData) /\ WithoutKeys(Get(BulkData), BulkKeys) # <<>>

\* the body was read and the primary keys were fetched
BulkPrepared == Len(calls) >= 2 /\ calls[1].ok /\ calls[2].ok

\* the statement of a batch for the row identifier: one row of the table,
\* named by its key
SingleRow(s, rowId) ==
  /\ s.kind = (IF handler = "api.d1.bulkDelete" THEN "DELETE" ELSE "UPDATE")
  /\ s.table = BulkTable
  /\ s.where = BulkKeys
  /\ SubSeq(s.binds, Len(s.binds) - Len(BulkKeys) + 1, Len(s.binds)) = KeyValues(BulkKeys, rowId)

\* the request was answered by one batch of one statement per identifier
OneBatch ==
  /\ Len(calls) = 3
  /\ calls[2].op = "d1.all" /\ calls[2].arg.kind = "TABLE_INFO"
  /\ calls[3].op = "d1.batch"
  /\ Len(calls[3].arg.statements) = Len(Get(BulkRowIds))
  /\ \A i \in DOMAIN Get(BulkRowIds) :
       SingleRow(calls[3].arg.statements[i], Get(BulkRowIds)[i])

\* the answer adds up the changes of the batch results
BulkAnswer ==
  /\ Get(resp).status = 200
  /\ Get(resp).body.meta.changes =
       SumSeq([i \in DOMAIN calls[3].arg.results |-> calls[3].arg.results[i].meta.changes])
  /\ Len(calls[3].arg.results) = Len(Get(BulkRowIds))
  /\ Get(resp).body.meta.rowsProcessed = Len(Get(BulkRowIds))

\* C6 (as amended): for a table with a primary key, a non-empty list of valid
\* row identifiers and, for bulk-update, data that names a column outside the
\* primary key, once the body is read and the primary keys are fetched the
\* handler issues one batch and no other call; the batch holds one DELETE or
\* UPDATE per identifier, in order, each bound to that identifier's key;
\* when the batch succeeds the answer carries the sum of its changes and the
\* number of identifiers.
C6_OneBatch ==
  BulkValid /\ BulkHasData /\ BulkPrepared =>
    OneBatch /\ (AllCallsOk => BulkAnswer)

\* C6: a bulk update of the same row twice ran as two statements
C6_Witness ==
  /\ BulkValid /\ BulkHasData /\ AllCallsOk /\ handler = "api.d1.bulkUpdate"
  /\ Len(Get(BulkRowIds)) = 2 /\ Get(BulkRowIds)[1] = Get(BulkRowIds)[2]
  /\ Get(resp).status = 200 /\ Get(resp).body.meta.changes = 2

\* C6 as stated: valid identifiers alone make both routes issue the batch
\* and answer with its changes, when no call throws
C6_Original == BulkValid /\ AllCallsOk => OneBatch /\ BulkAnswer

\* a GET of a key of an existing namespace, read as text, whose calls returned
KvGot ==
  /\ Answered /\ handler \in {"api.kv.get", "srv.kv.get"}
  /\ ParamsOf(Get(req)).binding = "KV"
  /\ Get(req).query.type \in {Null, Some("text")}
  /\ AllCallsOk

GotKey == ParamsOf(Get(req)).key

\* C7: after a successful PUT of value v and metadata m under key k and no
\* later write to k, a GET of k as text answers 200 with v and m, also for the
\* empty string; after a successful DELETE of k and no later write to k, it
\* answers 404 'Key not found'.
C7_PutThenGet ==
  KvGot /\ ~IsNull(last.kv[GotKey]) =>
    IF Get(last.kv[GotKey]).op = "put"
    THEN /\ Get(resp).status = 200
         /\ Get(resp).body.key = GotKey
         /\ Get(resp).body.value = Get(last.kv[GotKey]).value
         /\ Get(resp).body.metadata = Get(last.kv[GotKey]).metadata
    ELSE Get(resp) = Json(404, [error |-> "Key not found"])

\* C7: the empty string was stored with metadata and read back
C7_Witness ==
  /\ KvGot /\ last.kv[GotKey] = Some([op |-> "put", value |-> "", metadata |-> Some("m1")])
  /\ Get(resp).status = 200 /\ Get(resp).body.value = ""

\* the request in flight is GET /BUCKET/objects/<k> and its calls returned
Download(k) ==
  /\ Answered /\ Get(req).method = "GET"
  /\ Get(req).path = <<"BUCKET", "objects">> \o k
  /\ AllCallsOk

\* C8: after a successful PUT of an object under key k and no later write to
\* k, GET /:binding/objects/k answers with the content stored under k, for
\* every key, also one that contains '/'.
C8_Downloadable ==
  \A k \in R2Keys :
    Download(k) /\ ~IsNull(last.r2[k]) =>
      /\ Get(resp).type = "raw"
      /\ Get(resp).body = [key |-> k, body |-> Get(last.r2[k]).body]

\* C8: the object stored under a/meta was asked for and the metadata route
\* answered for the key a
C8_Shadowed ==
  /\ Download(<<"a", "meta">>) /\ ~IsNull(last.r2[<<"a", "meta">>])
  /\ handler \in {"api.r2.head", "srv.r2.head"}
  /\ ParamsOf(Get(req)).key = <<"a">>

\* the command got past the check of the config file
Checked == cli.pc \notin {"idle", "check"}

ConfigMissing == ConfigOf(cli) \notin cli.files

Printed(message) == message \in Range(cli.out)

\* the order of the start-up, as far as a state shows it
StartupOrder ==
  /\ Checked /\ ConfigMissing =>
       /\ cli.pc = "exited" /\ cli.exit = Some(1)
       /\ cli.emulator = "off" /\ cli.dashboard = "off"
  /\ cli.emulator # "off" => Checked /\ ~ConfigMissing
  /\ cli.dashboard # "off" => cli.emulator \in {"running", "stopped"}
  /\ cli.emulator = "failed" =>
       /\ cli.dashboard = "off"
       /\ cli.pc = "exited" => cli.exit = Some(1)
  /\ Printed("running") => cli.emulator \in {"running", "stopped"} /\ cli.dashboard # "off"
  /\ cli.pc = "serving" /\ ~Printed("shutting down") => cli.dashboard = "started"

\* C9: a missing config file ends the command with exit code 1 and nothing
\* started; otherwise the emulator is started, the dashboard server is
\* started only once the emulator's start has completed, a failed emulator
\* start leaves the dashboard server unstarted and ends the command with exit
\* code 1, and the 'running' message is printed only after both were started.
C9_StartupOrder ==
  /\ []StartupOrder
  /\ (cli.pc = "check" /\ ConfigMissing) ~> (cli.exit = Some(1))
  /\ (cli.emulator = "failed") ~> (cli.exit = Some(1))

\* C9: the emulator failed to start and the command ended with exit code 1
C9_Witness ==
  /\ cli.emulator = "failed" /\ cli.exit = Some(1) /\ cli.dashboard = "off"
  /\ ~IsNull(cli.configPath)

\* the last thing that happened in the UI is that C was pressed
PressedC == tui.lastKey = "c"

\* C10: after C is pressed both log lists are empty and the footer counts 0
C10_ClearEmpties ==
  PressedC => FooterCounts(tui) = [app |-> 0, api |-> 0]

\* C10: C was pressed while both lists held a line, and both still hold it
C10_NotCleared ==
  /\ PressedC /\ tui.mounted
  /\ Len(tui.userLogs) > 0 /\ Len(tui.localflareLogs) > 0

-----------------------------------------------------------------------------
(* Insert-row and the values it leaves out *)

Inserting == Answered /\ handler = "api.d1.insert"

\* the entries of the body of the insert request in flight
InsertEntries == Get(Get(req).body).entries

\* the columns the request submits with the value null or undefined
EmptyColumns == {InsertEntries[i][1] : i \in {j \in DOMAIN InsertEntries : InsertEntries[j][2] \in {Null, Undefined}}}

\* the columns the request submits with a value
FilledColumns == {InsertEntries[i][1] : i \in {j \in DOMAIN InsertEntries : InsertEntries[j][2] \notin {Null, Undefined}}}

\* the statements the handler handed to the database
Statements == {calls[i].arg : i \in {j \in DOMAIN calls : calls[j].op = "d1.run"}}

\* C11: the INSERT statement of an insert-row request lists no column whose
\* submitted value is null or undefined, and a request that leaves no column
\* is answered with an error without a statement being executed.
C11_NullsFiltered ==
  Inserting /\ Len(calls) >= 1 /\ calls[1].ok =>
    /\ \A s \in Statements : Range(s.cols) \cap EmptyColumns = {}
    /\ FilledColumns = {} => Get(resp).status >= 400 /\ Statements = {}

\* C11: an insert that submitted null for a column ran an INSERT statement
\* that lists the column and binds NULL to it
C11_NullInserted ==
  /\ Inserting /\ AllCallsOk /\ Get(resp).status = 200
  /\ "name" \in EmptyColumns
  /\ \E s \in Statements :
       /\ s.kind = "INSERT"
       /\ \E i \in DOMAIN s.cols : s.cols[i] = "name" /\ s.binds[i] = Null

-----------------------------------------------------------------------------
(* The WHERE clause built from the primary key *)

WhereHandlers ==
  {"api.d1.update", "api.d1.cell", "api.d1.delete", "api.d1.bulkDelete", "api.d1.bulkUpdate"}

\* the primary keys of the table the request in flight names
KeysInFlight == getPrimaryKeys(ParamsOf(Get(req)).table)

\* the row identifiers of the request in flight, in the order the handler
\* hands them to buildPrimaryKeyWhere
RowIdsInFlight ==
  IF handler \in {"api.d1.bulkDelete", "api.d1.bulkUpdate"}
  THEN OrElse(Get(Get(req).body).rowIds, <<>>)
  ELSE <<StringId(ParamsOf(Get(req)).rowId)>>

\* the handler fetched the primary keys, found some, and went on to build
\* the WHERE clauses
WhereCalled ==
  /\ Answered /\ handler \in WhereHandlers
  /\ \E i \in DOMAIN calls : calls[i].op = "d1.all" /\ calls[i].arg.kind = "TABLE_INFO" /\ calls[i].ok
  /\ Len(KeysInFlight) > 0
  /\ handler = "api.d1.bulkUpdate" => WithoutKeys(Get(BulkData), KeysInFlight) # <<>>

WhereBuilt(i) == buildPrimaryKeyWhere(KeysInFlight, RowIdsInFlight[i])

\* the handler got as far as building the clause of identifier number i
WhereReached(i) == \A j \in 1..(i - 1) : ~WhereBuilt(j).throws

\* one condition per primary-key column, in key order, and one value per placeholder
WellFormed(w) == w.clause = KeysInFlight /\ Len(w.values) = Len(w.clause)

\* the handler handed a write statement to the database
Wrote == \E i \in DOMAIN calls : calls[i].op \in {"d1.run", "d1.batch"}

\* C12: every call of buildPrimaryKeyWhere throws or returns one condition
\* per primary-key column, in key order, with as many values as placeholders;
\* when it throws the route hands no write statement to the database.
C12_WellFormedWhere ==
  WhereCalled =>
    \A i \in DOMAIN RowIdsInFlight :
      WhereReached(i) =>
        IF WhereBuilt(i).throws THEN ~Wrote ELSE WellFormed(WhereBuilt(i))

\* C12: a row identifier that is a JSON array of two values, for a table whose
\* primary key is one column, gave one condition and two values, and the
\* statement built from them was handed to the database
C12_Mismatch ==
  /\ WhereCalled /\ handler = "api.d1.update" /\ Len(KeysInFlight) = 1
  /\ ~WhereBuilt(1).throws
  /\ Len(WhereBuilt(1).clause) = 1 /\ Len(WhereBuilt(1).values) = 2
  /\ \E i \in DOMAIN calls :
       /\ calls[i].op = "d1.run" /\ ~calls[i].ok
       /\ calls[i].arg.where = KeysInFlight
       /\ Len(calls[i].arg.binds) = Len(calls[i].arg.cols) + 2
  /\ Get(resp).status = 500

-----------------------------------------------------------------------------
(* Updates and the primary-key columns *)

KeyedHandlers == WhereHandlers

\* the UPDATE statements the handler handed to the database
Updates ==
  {s \in Statements : s.kind = "UPDATE"}
  \cup UNION {Range(calls[i].arg.statements) : i \in {j \in DOMAIN calls : calls[j].op = "d1.batch"}}

\* the primary key of the table the request in flight names, by its schema
TableKey == Range(SchemaKey(ParamsOf(Get(req)).table))

\* the data of a PUT or bulk-update request, as entries
DataInFlight ==
  IF handler = "api.d1.update" THEN Get(Get(req).body).entries
  ELSE OrElse(Get(Get(req).body).data, <<>>)

\* C13 (as amended): the UPDATE statements of PUT row and bulk-update set no
\* primary-key column, and data that names only primary-key columns is
\* refused without a write; the UPDATE of PATCH cell sets exactly the column
\* the request names, primary key or not; for a table without primary key the
\* PUT, PATCH, DELETE and bulk routes hand no write statement to the database.
C13_KeysKept ==
  Answered /\ handler \in KeyedHandlers =>
    /\ handler \in {"api.d1.update", "api.d1.bulkUpdate"} =>
         /\ \A s \in Updates : Range(s.cols) \cap TableKey = {}
         /\ (\A i \in DOMAIN DataInFlight : DataInFlight[i][1] \in TableKey) =>
              ~Wrote /\ Get(resp).status >= 400
    /\ handler = "api.d1.cell" =>
         \A s \in Updates : s.cols = <<Get(Get(Get(req).body).column)>>
    /\ TableKey = {} => ~Wrote /\ Get(resp).status >= 400

\* C13: a PUT that named the key column and another column ran an UPDATE
\* that sets the other column only
C13_Witness ==
  /\ Answered /\ handler = "api.d1.update" /\ AllCallsOk /\ Get(resp).status = 200
  /\ \E i \in DOMAIN DataInFlight : DataInFlight[i][1] \in TableKey
  /\ \E s \in Updates : s.cols = <<"name">>

\* C13 as stated: no UPDATE of PUT row, PATCH cell or bulk-update names a
\* primary-key column in its SET clause
C13_Original ==
  Answered /\ handler \in {"api.d1.update", "api.d1.cell", "api.d1.bulkUpdate"} =>
    \A s \in Updates : Range(s.cols) \cap TableKey = {}

-----------------------------------------------------------------------------
(* The inline cell: saving *)

\* the cell has just committed, by Enter or by a blur, the text of the input
Committed == cell.lastEvent \in {"enter", "blur"}

\* the text that was committed is the text the cell displayed
Unmodified == cell.shown.editValue = formatDisplayValue(cell.value, cell.type)

\* C14: committing an edit whose text was not modified does not call onSave:
\* parseInputValue(formatDisplayValue(v, type), type) is v.
C14_UnchangedNotSaved ==
  Committed /\ Unmodified =>
    /\ cell.saved = <<>>
    /\ parseInputValue(formatDisplayValue(cell.value, cell.type), cell.type) = cell.value

\* C14: a TEXT cell that holds the empty string was opened and committed
\* with Enter, the text untouched, and onSave was called with null
C14_EmptySaved ==
  /\ cell.lastEvent = "enter" /\ Unmodified
  /\ cell.value = StringValue(<<>>) /\ cell.type = "TEXT"
  /\ cell.saved = <<NullValue>>

\* C15: an editing session calls onSave at most once; Escape ends it without
\* a call of onSave, whatever event follows before the input is removed; the
\* event that ends the session leaves editing mode.
C15_OneSave ==
  /\ Len(cell.saved) <= 1
  /\ cell.ended = "escape" => cell.saved = <<>>
  /\ cell.ended # "" => ~cell.isEditing

\* C15: Enter saved the typed value, the input lost the focus before the
\* next render, and onSave was called a second time with the same value
C15_SavedTwice ==
  /\ cell.ended = "enter" /\ cell.lastEvent = "late blur"
  /\ Len(cell.saved) = 2 /\ cell.saved[1] = cell.saved[2]

-----------------------------------------------------------------------------
(* The row editor: validation and the saved data *)

FormColumn(c) == ColumnOf(form.schema, c)

\* the column is an INTEGER primary key and the dialog creates a row
SkippedColumn(c) ==
  IsNull(form.row) /\ c \in form.schema.primaryKeys /\ UpperType(FormColumn(c).type) = "INTEGER"

EmptyField(c) == form.formData[c] \in {NullValue, UndefinedValue, StringValue(<<>>)}

\* a NOT NULL column without default whose field is empty
MissingRequired(c) ==
  /\ ~SkippedColumn(c)
  /\ FormColumn(c).notnull = 1 /\ IsNull(FormColumn(c).dflt_value)
  /\ EmptyField(c)

\* a field of an INT-type column that is not empty, is no integer and does
\* not parse as one
BadInteger(c) ==
  /\ IncludesInt(UpperType(FormColumn(c).type))
  /\ ~EmptyField(c)
  /\ ~(form.formData[c].kind = "number" /\ "." \notin Range(form.formData[c].text))
  /\ IsNull(parseInt(form.formData[c].text))

Offending(c) == MissingRequired(c) \/ BadInteger(c)

JustSaved == form.open /\ form.lastEvent = "save"

\* after handleSave: onSave was called only if no column offends, and the
\* errors are recorded for exactly the offending columns
Validated ==
  JustSaved =>
    /\ (\E c \in ColumnNamesOfForm : Offending(c)) <=> IsNull(form.saved)
    /\ \A c \in ColumnNamesOfForm : form.errors[c] # "" <=> Offending(c)

\* a step that edits a field clears the error of that field and of no other
EditClearsOwnError ==
  (FormChange \/ FormNullToggle) =>
    form'.errors = [form.errors EXCEPT ![form'.field] = ""]

\* C17: handleSave calls onSave only when validation passes; otherwise it
\* records an error for exactly the columns that are required and empty or
\* hold a value of an INT-type column that is no integer and parses as none;
\* editing a field removes the error of that field and no other.
C17_Validation == []Validated /\ [][EditClearsOwnError]_vars

\* C17: a save was refused with one error for a required field that is empty
\* and one for a text in an integer column
C17_Witness ==
  /\ JustSaved /\ IsNull(form.saved)
  /\ form.errors["at"] = "This field is required"
  /\ form.errors["qty"] = "Must be an integer"
  /\ form.errors["id"] = ""

\* the column has a default that is an SQL expression: CURRENT_TIMESTAMP,
\* CURRENT_DATE, a parenthesised expression
ExpressionDefault(c) ==
  /\ ~IsNull(FormColumn(c).dflt_value)
  /\ \E e \in {CurrentTimestamp, CurrentDate, <<"(">>} :
       StartsWithText(Trim(ToUpperCase(Get(FormColumn(c).dflt_value))), e)

\* the data handed to onSave leaves the column out
LeftOut(c) == Get(form.saved)[c] = Omitted

\* C18: the data of a new row leaves out every INTEGER primary-key column and
\* every column with an SQL-expression default whose field is empty or null,
\* and holds every other column with its form value; the data of an existing
\* row holds every column of the schema with its form value.
C18_SavedData ==
  JustSaved /\ ~IsNull(form.saved) =>
    \A c \in ColumnNamesOfForm :
      IF IsNull(form.row) /\ (SkippedColumn(c) \/ (ExpressionDefault(c) /\ EmptyField(c)))
      THEN LeftOut(c)
      ELSE ~LeftOut(c) /\ Get(form.saved)[c] = form.formData[c]

\* C18: a new row was saved without its INTEGER primary key and without the
\* column whose default is CURRENT_TIMESTAMP, and with the number typed
C18_Witness ==
  /\ JustSaved /\ ~IsNull(form.saved) /\ IsNull(form.row)
  /\ FormColumn("at").dflt_value = Some(CurrentTimestamp)
  /\ LeftOut("id") /\ LeftOut("at")
  /\ Get(form.saved)["qty"] = NumberValue(<<"1">>)

\* the dialog has just opened for a new row
OpenedToCreate == form.open /\ form.lastEvent = "open" /\ IsNull(form.row)

OpenedToEdit == form.open /\ form.lastEvent = "open" /\ ~IsNull(form.row)

\* the trimmed text of the column's default
DefaultText(c) == Trim(Get(FormColumn(c).dflt_value))

\* the default is a literal: neither an SQL expression nor absent
LiteralDefault(c) == ~IsNull(FormColumn(c).dflt_value) /\ ~ExpressionDefault(c)

\* the default is a literal without quotes that is not NULL, of a column
\* whose type is numeric
NumericDefault(c) ==
  /\ LiteralDefault(c) /\ ~Quoted(DefaultText(c))
  /\ ToUpperCase(DefaultText(c)) # <<"N", "U", "L", "L">>
  /\ UpperType(FormColumn(c).type) \in {"INTEGER", "BIGINT", "REAL"}

\* the text starts with a number
StartsNumeric(text) ==
  LET t == IF text # <<>> /\ Head(text) \in {"-", "+"} THEN Tail(text) ELSE text
  IN t # <<>> /\ (Head(t) \in DigitChars \/ (Head(t) = "." /\ Len(t) > 1 /\ t[2] \in DigitChars))

\* the initial values of the columns without literal default
PlainInitial(c) ==
  /\ ExpressionDefault(c) => form.formData[c] = NullValue
  /\ IsNull(FormColumn(c).dflt_value) =>
       form.formData[c] = (IF FormColumn(c).notnull = 0 THEN NullValue ELSE StringValue(<<>>))

\* the initial values of quoted, NULL and non-numeric literal defaults
TextInitial(c) ==
  LiteralDefault(c) =>
    /\ Quoted(DefaultText(c)) =>
         form.formData[c] = StringValue(SubSeq(DefaultText(c), 2, Len(DefaultText(c)) - 1))
    /\ ToUpperCase(DefaultText(c)) = <<"N", "U", "L", "L">> => form.formData[c] = NullValue
    /\ ~Quoted(DefaultText(c)) /\ ToUpperCase(DefaultText(c)) # <<"N", "U", "L", "L">>
         /\ ~NumericDefault(c) => form.formData[c] = StringValue(DefaultText(c))

\* C19 (as amended): when the dialog opens in create mode the error map is
\* empty and every column has its initial value: null for an SQL-expression
\* default and for a nullable column without default, the empty string for a
\* NOT NULL column without default, the text without its quotes for a quoted
\* default, null for NULL, and for a numeric column a number if the default
\* starts with one and otherwise the default's text; in edit mode the form is
\* a copy of the row.
C19_InitialForm ==
  /\ OpenedToCreate =>
       /\ form.errors = NoErrors
       /\ \A c \in ColumnNamesOfForm :
            /\ form.formData[c] # UndefinedValue
            /\ PlainInitial(c) /\ TextInitial(c)
            /\ NumericDefault(c) =>
                 IF StartsNumeric(DefaultText(c))
                 THEN form.formData[c].kind = "number"
                 ELSE form.formData[c] = StringValue(DefaultText(c))
  /\ OpenedToEdit =>
       form.errors = NoErrors /\ \A c \in ColumnNamesOfForm : form.formData[c] = Get(form.row)[c]

\* C19: the dialog opened for a new row with the number 5 for the default
\* 05, the text u for the default "u" and the empty string for the key
C19_Witness ==
  /\ OpenedToCreate
  /\ FormColumn("qty").dflt_value = Some(<<"0", "5">>) /\ form.formData["qty"] = NumberValue(<<"5">>)
  /\ FormColumn("at").dflt_value = Some(<<"\"", "u", "\"">>) /\ form.formData["at"] = StringValue(<<"u">>)
  /\ FormColumn("id").notnull = 1 /\ form.formData["id"] = StringValue(<<>>)

\* C19 as stated: every literal default of a numeric column that is not
\* quoted and not NULL yields a number
C19_Original ==
  OpenedToCreate =>
    \A c \in ColumnNamesOfForm : NumericDefault(c) => form.formData[c].kind = "number"

=============================================================================
